---- MODULE Spec2Model ----
(***************************************************************************)
(* A model of pqb, a PostgreSQL query builder: the Value literal model,    *)
(* the identifier codec, the Expr tree, the parenthesization engine of     *)
(* write_expr and the two SQL writers (inline literals / $n placeholders). *)
(*                                                                         *)
(* Text is modelled as the sequence of fragments pushed to the writer;     *)
(* Text(frags) is their concatenation.  A Rust string whose characters     *)
(* matter (a string value, an identifier name) is a sequence of            *)
(* characters; a character is a one-character TLA+ string, an ASCII        *)
(* control character is written by its name ("<NUL>", "<BS>", ...).        *)
(* Option<T> is a sequence of length 0 (None) or 1 (Some).                 *)
(***************************************************************************)
EXTENDS Integers, Sequences, FiniteSets, TLC

VARIABLES
    expr,      \* the Expr under construction (the builder's self)
    sql,       \* Option<String>: what to_sql returned, fragments
    out,       \* Option<SqlWriterValues>: what to_values returned
    str,       \* the &str handed to write_string_value or to Iden::new
    lit,       \* Option<literal>: what write_string_value wrote
    qname,     \* the Idens of a qualified name, outermost first
    sel,       \* the Select under construction
    ins,       \* the Insert under construction
    coldef,    \* the ColumnDef under construction
    val,       \* the Value under construction
    panic,     \* Option<message>: the panic that ended the last call
    expl,      \* the Explain under construction
    conf,      \* the OnConflict under construction
    upd,       \* the Update under construction
    del        \* the Delete under construction

\* The statement builders and what they left behind.
\* The statements of the later specifications.
statements == <<expl, conf, upd, del>>

builders == <<qname, sel, ins, coldef, val, panic, statements>>

vars == <<expr, sql, out, str, lit, builders>>

(***************************************************************************)
(* Bounds of the exploration.                                              *)
(***************************************************************************)
MaxDepth == 2      \* nesting depth of operators built by the combinators
MaxChain == 4      \* operands of a chain folded over one operator
MaxStrLen == 3     \* characters of a string value

None == <<>>
Some(x) == <<x>>

NoStatements ==
    /\ expl = None
    /\ conf = None
    /\ upd = None
    /\ del = None

\* No statement builder has been constructed.
NoBuilders ==
    /\ qname = <<>>
    /\ sel = None
    /\ ins = None
    /\ coldef = None
    /\ val = None
    /\ panic = None
    /\ NoStatements

RECURSIVE Text(_)
Text(frags) == IF frags = <<>> THEN "" ELSE Head(frags) \o Text(Tail(frags))

(***************************************************************************)
(* Characters.                                                             *)
(***************************************************************************)
ControlCode ==
    [c \in {"<NUL>", "<SOH>", "<BS>", "<TAB>", "<LF>", "<FF>", "<CR>",
            "<ESC>", "<US>", "<DEL>"} |->
        CASE c = "<NUL>" -> 0
          [] c = "<SOH>" -> 1
          [] c = "<BS>"  -> 8
          [] c = "<TAB>" -> 9
          [] c = "<LF>"  -> 10
          [] c = "<FF>"  -> 12
          [] c = "<CR>"  -> 13
          [] c = "<ESC>" -> 27
          [] c = "<US>"  -> 31
          [] c = "<DEL>" -> 127]

is_ascii_control(c) == c \in DOMAIN ControlCode

AsciiLower == {"a","b","c","d","e","f","g","h","i","j","k","l","m",
               "n","o","p","q","r","s","t","u","v","w","x","y","z"}
AsciiUpper == {"A","B","C","D","E","F","G","H","I","J","K","L","M",
               "N","O","P","Q","R","S","T","U","V","W","X","Y","Z"}
AsciiDigit == {"0","1","2","3","4","5","6","7","8","9"}

is_ascii_alphabetic(c) == c \in AsciiLower \cup AsciiUpper
is_ascii_alphanumeric(c) == is_ascii_alphabetic(c) \/ c \in AsciiDigit

(***************************************************************************)
(* The writers.  w.params is TRUE for SqlWriterValues, FALSE for String.   *)
(***************************************************************************)
StringWriter == [sql |-> <<>>, values |-> <<>>, params |-> FALSE]
SqlWriterValues_new == [sql |-> <<>>, values |-> <<>>, params |-> TRUE]

\* W: SqlWriter. The callee receives the writer itself (&mut W), not the
\* expression that the caller built it with.
IsWriter(w) == DOMAIN w = {"sql", "values", "params"}

push_str(w, s) == [w EXCEPT !.sql = Append(@, s)]
push_char(w, c) == [w EXCEPT !.sql = Append(@, c)]
push_fmt(w, n) == [w EXCEPT !.sql = Append(@, ToString(n))]

\* a &str given by its characters
push_chars(w, cs) == [w EXCEPT !.sql = @ \o cs]

(***************************************************************************)
(* Value and its literals.                                                 *)
(***************************************************************************)
BoolValue(b) == [type |-> "Bool", some |-> TRUE, b |-> b]
IntValue(i) == [type |-> "Int", some |-> TRUE, i |-> i]
StringValue(s) == [type |-> "String", some |-> TRUE, s |-> s]
ArrayValue(a) == [type |-> "Array", some |-> TRUE, a |-> a]
NullValue(t) == [type |-> t, some |-> FALSE]

\* should_escape without its last arm (c if c.is_ascii_control())
should_escape_named_only(s) ==
    \E i \in 1..Len(s) :
        s[i] \in {"<BS>", "<FF>", "<LF>", "<CR>", "<TAB>", "\\", "'", "<NUL>"}

should_escape(s) ==
    \E i \in 1..Len(s) :
        \/ s[i] \in {"<BS>", "<FF>", "<LF>", "<CR>", "<TAB>", "\\", "'", "<NUL>"}
        \/ is_ascii_control(s[i])

\* format!(r"\{:03o}", c as u32)
octal_escape(c) ==
    LET n == ControlCode[c]
    IN  <<"\\", ToString((n \div 64) % 8), ToString((n \div 8) % 8), ToString(n % 8)>>

write_escaped_char(w, c) ==
    CASE c = "<BS>"  -> push_chars(w, <<"\\", "b">>)
      [] c = "<FF>"  -> push_chars(w, <<"\\", "f">>)
      [] c = "<LF>"  -> push_chars(w, <<"\\", "n">>)
      [] c = "<CR>"  -> push_chars(w, <<"\\", "r">>)
      [] c = "<TAB>" -> push_chars(w, <<"\\", "t">>)
      [] c = "\\"    -> push_chars(w, <<"\\", "\\">>)
      [] c = "'"     -> push_chars(w, <<"\\", "'">>)
      [] c = "<NUL>" -> push_chars(w, <<"\\", "0">>)
      [] OTHER       -> IF is_ascii_control(c)
                        THEN push_chars(w, octal_escape(c))
                        ELSE push_char(w, c)

RECURSIVE write_escaped_string(_, _)
write_escaped_string(w, value) ==
    IF ~IsWriter(w) THEN w ELSE
    IF value = <<>> THEN w
    ELSE write_escaped_string(write_escaped_char(w, Head(value)), Tail(value))

write_string_value(w, value) ==
    LET w1 == IF should_escape(value)
              THEN push_chars(w, <<"E", "'">>)
              ELSE push_chars(w, <<"'">>)
    IN  push_chars(write_escaped_string(w1, value), <<"'">>)

RECURSIVE write_value(_, _)
RECURSIVE write_array_rest(_, _)

\* write_array_value that stops after the first element
write_array_rest_dropped(w, rest) == w

\* the loop `for element in it` of write_array_value
write_array_rest(w, rest) ==
    IF ~IsWriter(w) THEN w ELSE
    IF rest = <<>> THEN w
    ELSE write_array_rest(write_value(push_str(w, ","), Head(rest)), Tail(rest))

write_array_value(w, values) ==
    IF values = <<>> THEN push_str(w, "'{}'")
    ELSE LET w1 == push_str(w, "ARRAY [")
             w2 == write_value(w1, Head(values))
             w3 == write_array_rest(w2, Tail(values))
         IN  push_str(w3, "]")

write_value(w, value) ==
    IF ~value.some THEN push_str(w, "NULL")
    ELSE CASE value.type = "Bool"   -> push_str(w, IF value.b THEN "TRUE" ELSE "FALSE")
           [] value.type = "Int"    -> push_fmt(w, value.i)
           [] value.type = "String" -> write_string_value(w, value.s)
           [] value.type = "Array"  -> write_array_value(w, value.a)

\* a slip: a string parameter is inlined without quoting
String_push_param_unquoted(w, value) ==
    IF value.some /\ value.type = "String" THEN push_chars(w, value.s)
    ELSE write_value(w, value)

\* impl SqlWriter for String
String_push_param(w, value) == write_value(w, value)

\* impl SqlWriter for SqlWriterValues: the value joins the list and the
\* placeholder carries its 1-based position
SqlWriterValues_push_param(w, value) ==
    LET vs == Append(w.values, value)
    IN  [w EXCEPT !.values = vs, !.sql = Append(@, "$" \o ToString(Len(vs)))]

push_param(w, value) ==
    IF w.params THEN SqlWriterValues_push_param(w, value)
    ELSE String_push_param(w, value)

(***************************************************************************)
(* Identifiers and qualified names.                                        *)
(***************************************************************************)
\* is_escaped_iden with the rule of the remaining characters applied to the
\* first one too
is_escaped_iden_digit_first(string) ==
    \A i \in 1..Len(string) :
        string[i] = "_" \/ is_ascii_alphanumeric(string[i])

is_escaped_iden(string) ==
    IF string = <<>> THEN TRUE
    ELSE IF ~(string[1] = "_" \/ is_ascii_alphabetic(string[1])) THEN FALSE
    ELSE \A i \in 2..Len(string) :
            string[i] = "_" \/ is_ascii_alphanumeric(string[i])

Iden_new(name) == [name |-> name, escaped |-> is_escaped_iden(name)]

DatabaseName(iden) == [iden |-> iden]
SchemaName(database, iden) == [database |-> database, iden |-> iden]
TableName(schema, iden) == [schema |-> schema, iden |-> iden]
ColumnName(table, iden) == [table |-> table, iden |-> iden]

\* the loop `for ch in iden.name.chars()` of write_iden
RECURSIVE write_iden_chars(_, _)
write_iden_chars(w, chars) ==
    IF ~IsWriter(w) THEN w ELSE
    IF chars = <<>> THEN w
    ELSE LET ch == Head(chars)
             w1 == IF ch = "\"" THEN push_char(w, "\"") ELSE w
         IN  write_iden_chars(push_char(w1, ch), Tail(chars))

\* write_iden taking the fast path whatever the flag
write_iden_name_verbatim(w, iden) == push_str(w, Text(iden.name))

write_iden_name(w, iden) ==
    IF iden.escaped THEN push_str(w, Text(iden.name))
    ELSE write_iden_chars(w, iden.name)

write_iden(w, iden) ==
    push_char(write_iden_name(push_char(w, "\""), iden), "\"")

\* write_schema_name pushing the dot whether or not a database is present
write_schema_name_always_dot(w, schema_name) ==
    LET w1 == IF schema_name.database # None
              THEN write_iden(w, schema_name.database[1].iden)
              ELSE w
    IN  write_iden(push_char(w1, "."), schema_name.iden)

write_schema_name(w, schema_name) ==
    LET w1 == IF schema_name.database # None
              THEN push_char(write_iden(w, schema_name.database[1].iden), ".")
              ELSE w
    IN  write_iden(w1, schema_name.iden)

write_table_name(w, table_name) ==
    LET w1 == IF table_name.schema # None
              THEN push_char(write_schema_name(w, table_name.schema[1]), ".")
              ELSE w
    IN  write_iden(w1, table_name.iden)

\* MaybeQualifiedOnce::into_2_parts of one name or of a pair
into_2_parts(names) ==
    IF Len(names) = 1 THEN <<None, names[1]>>
    ELSE <<Some(names[1]), names[2]>>

\* MaybeQualifiedTwice::into_3_parts of one name, a pair or a triple
into_3_parts(names) ==
    IF Len(names) = 3 THEN <<Some(<<Some(names[1]), names[2]>>), names[3]>>
    ELSE IF Len(names) = 2 THEN <<Some(<<None, names[1]>>), names[2]>>
    ELSE <<None, names[1]>>

SchemaName_from(names) ==
    IF Len(names) = 2
    THEN SchemaName(Some(DatabaseName(names[1])), names[2])
    ELSE SchemaName(None, names[1])

\* the closure of TableName::from over Some(schema_parts)
TableName_schema(schema_parts) ==
    IF schema_parts[1] # None
    THEN SchemaName(Some(DatabaseName(schema_parts[1][1])), schema_parts[2])
    ELSE SchemaName(None, schema_parts[2])

TableName_from(names) ==
    IF into_3_parts(names)[1] = None
    THEN TableName(None, into_3_parts(names)[2])
    ELSE TableName(Some(TableName_schema(into_3_parts(names)[1][1])),
                   into_3_parts(names)[2])

\* the closure of ColumnName::from over Some(table_parts)
ColumnName_table(table_parts) ==
    IF table_parts[1] # None
    THEN TableName(Some(SchemaName_from(<<table_parts[1][1]>>)), table_parts[2])
    ELSE TableName(None, table_parts[2])

ColumnName_from(names) ==
    IF into_3_parts(names)[1] = None
    THEN ColumnName(None, into_3_parts(names)[2])
    ELSE ColumnName(Some(ColumnName_table(into_3_parts(names)[1][1])),
                    into_3_parts(names)[2])

\* the loop over a list of identifiers separated by ", "
RECURSIVE write_idens(_, _, _)
write_idens(w, idens, i) ==
    IF ~IsWriter(w) THEN w ELSE
    IF i > Len(idens) THEN w
    ELSE write_idens(write_iden(IF i > 1 THEN push_str(w, ", ") ELSE w, idens[i]),
                     idens, i + 1)

(***************************************************************************)
(* Expr.                                                                   *)
(***************************************************************************)
BinaryOp == {"And", "Or", "Equal", "NotEqual", "Between", "NotBetween",
             "Like", "NotLike", "Is", "IsNot", "In", "NotIn", "LShift",
             "RShift", "Add", "Sub", "Mul", "Div", "Mod", "LessThan",
             "LessThanOrEqual", "GreaterThan", "GreaterThanOrEqual"}
UnaryOp == {"Not"}
SubQueryOp == {"Exists", "Any", "Some", "All"}
Func == {"Max", "Min", "Sum", "Avg", "Count", "Coalesce"}

ColumnRef_Column(column_name) == [ref |-> "Column", column |-> column_name]
ColumnRef_Asterisk(table) == [ref |-> "Asterisk", table |-> table]

Expr_Column(col) == [kind |-> "Column", col |-> col]
Expr_Asterisk == [kind |-> "Asterisk"]
Expr_Keyword(kw) == [kind |-> "Keyword", kw |-> kw]
Expr_Tuple(exprs) == [kind |-> "Tuple", exprs |-> exprs]
Expr_Value(value) == [kind |-> "Value", value |-> value]
Expr_Unary(op, e) == [kind |-> "Unary", op |-> op, expr |-> e]
Expr_Binary(lhs, op, rhs) == [kind |-> "Binary", lhs |-> lhs, op |-> op, rhs |-> rhs]
Expr_FunctionCall(call) == [kind |-> "FunctionCall", call |-> call]
Expr_SubQuery(op, query) == [kind |-> "SubQuery", op |-> op, query |-> query]
Expr_Custom(text) == [kind |-> "Custom", text |-> text]

FunctionCall(func, args) == [func |-> func, args |-> args]

\* the combinators
binary(self, op, rhs) == Expr_Binary(self, op, rhs)
unary(self, op) == Expr_Unary(op, self)
not(self) == unary(self, "Not")
is_null(self) == binary(self, "Is", Expr_Keyword("Null"))
is_not_null(self) == binary(self, "IsNot", Expr_Keyword("Null"))
between(self, a, b) == binary(self, "Between", Expr_Binary(a, "And", b))
not_between(self, a, b) == binary(self, "NotBetween", Expr_Binary(a, "And", b))
Expr_is_in(self, v) == binary(self, "In", Expr_Tuple(v))
Expr_is_not_in(self, v) == binary(self, "NotIn", Expr_Tuple(v))
in_subquery(self, query) == binary(self, "In", Expr_SubQuery(None, query))
if_null(self, value) == Expr_FunctionCall(FunctionCall("Coalesce", <<self, value>>))
aggregate(self, func) == Expr_FunctionCall(FunctionCall(func, <<self>>))

\* conditions.into_iter().reduce(|lhs, rhs| lhs.binary(BinaryOp::And, rhs))
RECURSIVE reduce_and(_, _)
reduce_and(acc, rest) ==
    IF rest = <<>> THEN acc
    ELSE reduce_and(binary(acc, "And", Head(rest)), Tail(rest))

\* from_conditions folding the conditions from the last one to the first
from_conditions_reversed(conditions) ==
    IF conditions = <<>> THEN None
    ELSE Some(reduce_and(conditions[Len(conditions)],
                [i \in 1..(Len(conditions) - 1) |->
                    conditions[Len(conditions) - i]]))

from_conditions(conditions) ==
    IF conditions = <<>> THEN None
    ELSE Some(reduce_and(Head(conditions), Tail(conditions)))

(***************************************************************************)
(* Operator classes.                                                       *)
(***************************************************************************)
Operator_Unary(op) == [arity |-> "Unary", op |-> op]
Operator_Binary(op) == [arity |-> "Binary", op |-> op]

\* a slip: the unary NOT is left out of the logical operators
is_logical_binary_only(o) ==
    \/ o = Operator_Binary("And")
    \/ o = Operator_Binary("Or")

is_logical(o) ==
    \/ o = Operator_Unary("Not")
    \/ o = Operator_Binary("And")
    \/ o = Operator_Binary("Or")
\* a slip: NOT BETWEEN is left out
is_between_only(o) == o = Operator_Binary("Between")

is_between(o) == o \in {Operator_Binary("Between"), Operator_Binary("NotBetween")}
is_like(o) == o \in {Operator_Binary("Like"), Operator_Binary("NotLike")}
is_in(o) == o \in {Operator_Binary("In"), Operator_Binary("NotIn")}
is_is(o) == o \in {Operator_Binary("Is"), Operator_Binary("IsNot")}
is_shift(o) == o \in {Operator_Binary("LShift"), Operator_Binary("RShift")}
is_arithmetic(o) ==
    o.arity = "Binary" /\ o.op \in {"Mul", "Div", "Mod", "Add", "Sub"}
is_comparison(o) ==
    o.arity = "Binary" /\ o.op \in {"LessThan", "LessThanOrEqual", "Equal",
                                    "GreaterThanOrEqual", "GreaterThan", "NotEqual"}

\* a slip: a Custom fragment is taken for an atom
well_known_no_parentheses_with_custom(e) ==
    e.kind \in {"Column", "Tuple", "Value", "Asterisk", "Keyword",
                "FunctionCall", "SubQuery", "Custom"}

\* a slip: a NOT operand is written bare
well_known_no_parentheses_with_unary(e) ==
    e.kind \in {"Column", "Tuple", "Value", "Asterisk", "Keyword",
                "FunctionCall", "SubQuery", "Unary"}

well_known_no_parentheses(e) ==
    e.kind \in {"Column", "Tuple", "Value", "Asterisk", "Keyword",
                "FunctionCall", "SubQuery"}

\* a slip: only the commutative operators are listed
well_known_left_associative_commutative(op) ==
    op \in {"And", "Or", "Add", "Mul"}

well_known_left_associative(op) ==
    op \in {"And", "Or", "Add", "Sub", "Mul", "Div"}

\* a slip: IS joins the parents under which arithmetic stays bare
well_known_high_precedence_with_is(e, outer_op) ==
    IF e.kind # "Binary" THEN FALSE
    ELSE LET inner_op == Operator_Binary(e.op)
         IN  IF is_arithmetic(inner_op) \/ is_shift(inner_op)
             THEN \/ is_comparison(outer_op)
                  \/ is_between(outer_op)
                  \/ is_in(outer_op)
                  \/ is_like(outer_op)
                  \/ is_is(outer_op)
                  \/ is_logical(outer_op)
             ELSE IF \/ is_comparison(inner_op) \/ is_in(inner_op)
                     \/ is_like(inner_op) \/ is_is(inner_op)
                  THEN is_logical(outer_op)
                  ELSE FALSE

\* a slip: BETWEEN joins the children that stay bare under AND, OR, NOT
well_known_high_precedence_with_between(e, outer_op) ==
    IF e.kind # "Binary" THEN FALSE
    ELSE LET inner_op == Operator_Binary(e.op)
         IN  IF is_arithmetic(inner_op) \/ is_shift(inner_op)
             THEN \/ is_comparison(outer_op)
                  \/ is_between(outer_op)
                  \/ is_in(outer_op)
                  \/ is_like(outer_op)
                  \/ is_logical(outer_op)
             ELSE IF \/ is_comparison(inner_op) \/ is_in(inner_op)
                     \/ is_like(inner_op) \/ is_is(inner_op)
                     \/ is_between(inner_op)
                  THEN is_logical(outer_op)
                  ELSE FALSE

well_known_high_precedence(e, outer_op) ==
    IF e.kind # "Binary" THEN FALSE
    ELSE LET inner_op == Operator_Binary(e.op)
         IN  IF is_arithmetic(inner_op) \/ is_shift(inner_op)
             THEN \/ is_comparison(outer_op)
                  \/ is_between(outer_op)
                  \/ is_in(outer_op)
                  \/ is_like(outer_op)
                  \/ is_logical(outer_op)
             ELSE IF \/ is_comparison(inner_op) \/ is_in(inner_op)
                     \/ is_like(inner_op) \/ is_is(inner_op)
             THEN is_logical(outer_op)
             ELSE FALSE

(***************************************************************************)
(* Statements that an expression can hold: Select and its parts.           *)
(***************************************************************************)
TableRef_Table(table_name, alias) == [ref |-> "Table", table |-> table_name, alias |-> alias]
TableRef_SubQuery(query, alias) == [ref |-> "SubQuery", query |-> query, alias |-> alias]

SelectExpr(e, alias) == [expr |-> e, alias |-> alias]
JoinExpr(join_type, table, on) == [join_type |-> join_type, table |-> table, on |-> on]
Order(e, direction, nulls) == [expr |-> e, direction |-> direction, nulls |-> nulls]
RowLevelLock(ty, tables, behavior) == [ty |-> ty, tables |-> tables, behavior |-> behavior]
TableSample(method, percentage, repeatable) ==
    [method |-> method, percentage |-> percentage, repeatable |-> repeatable]

Select_new ==
    [selects |-> <<>>, from |-> <<>>, joins |-> <<>>, conditions |-> <<>>,
     groups |-> <<>>, having |-> <<>>, orders |-> <<>>, limit |-> None,
     offset |-> None, lock |-> None, table_sample |-> None, with |-> None]

\* With, CommonTableExpression and its Query
With(ctes) == [ctes |-> ctes]
CommonTableExpression(name, columns, query, materialized) ==
    [name |-> name, columns |-> columns, query |-> query,
     materialized |-> materialized]
Query_Select(select) == [query |-> "Select", select |-> select]
Query_Values(values) == [query |-> "Values", rows |-> values]

(***************************************************************************)
(* Rendering.                                                              *)
(***************************************************************************)
RECURSIVE write_expr(_, _)
RECURSIVE write_select(_, _)
RECURSIVE write_tuple_items(_, _, _)
RECURSIVE write_function_args(_, _, _)
RECURSIVE write_select_exprs(_, _, _)
RECURSIVE write_from(_, _, _)
RECURSIVE write_joins(_, _)
RECURSIVE write_groups(_, _, _)
RECURSIVE write_orders(_, _, _)
RECURSIVE write_ctes(_, _, _)
RECURSIVE write_cte_rows(_, _, _)
RECURSIVE write_cte_row(_, _, _)

write_unary_op(w, op) == push_str(w, CASE op = "Not" -> "NOT")

write_binary_op(w, op) ==
    push_str(w, CASE op = "And" -> "AND"
                  [] op = "Or" -> "OR"
                  [] op = "Like" -> "LIKE"
                  [] op = "NotLike" -> "NOT LIKE"
                  [] op = "Is" -> "IS"
                  [] op = "IsNot" -> "IS NOT"
                  [] op = "In" -> "IN"
                  [] op = "NotIn" -> "NOT IN"
                  [] op = "Between" -> "BETWEEN"
                  [] op = "NotBetween" -> "NOT BETWEEN"
                  [] op = "Equal" -> "="
                  [] op = "NotEqual" -> "<>"
                  [] op = "LessThan" -> "<"
                  [] op = "LessThanOrEqual" -> "<="
                  [] op = "GreaterThan" -> ">"
                  [] op = "GreaterThanOrEqual" -> ">="
                  [] op = "Add" -> "+"
                  [] op = "Sub" -> "-"
                  [] op = "Mul" -> "*"
                  [] op = "Div" -> "/"
                  [] op = "Mod" -> "%"
                  [] op = "LShift" -> "<<"
                  [] op = "RShift" -> ">>")

\* if paren { w.push_char(c) }
push_paren(w, paren, c) == IF paren THEN push_char(w, c) ELSE w

write_unary_expr(w, op, e) ==
    LET paren == /\ ~well_known_no_parentheses(e)
                 /\ ~well_known_high_precedence(e, Operator_Unary(op))
        w1 == push_char(write_unary_op(w, op), " ")
        w2 == push_paren(w1, paren, "(")
        w3 == write_expr(w2, e)
    IN  push_paren(w3, paren, ")")

write_binary_expr(w, lhs, op, rhs) ==
    LET binop == Operator_Binary(op)
        left_paren0 == /\ ~well_known_no_parentheses(lhs)
                       /\ ~well_known_high_precedence(lhs, binop)
        \* left associativity allow us to drop the left parentheses
        left_paren == /\ left_paren0
                      /\ ~(/\ lhs.kind = "Binary"
                           /\ lhs.op = op
                           /\ well_known_left_associative(op))
        w1 == push_paren(w, left_paren, "(")
        w2 == write_expr(w1, lhs)
        w3 == push_paren(w2, left_paren, ")")
        w4 == push_char(write_binary_op(push_char(w3, " "), op), " ")
        right_paren0 == /\ ~well_known_no_parentheses(rhs)
                        /\ ~well_known_high_precedence(rhs, binop)
        \* workaround represent trinary op between as nested binary ops
        right_paren == /\ right_paren0
                       /\ ~(/\ is_between(binop)
                            /\ rhs.kind = "Binary"
                            /\ rhs.op = "And")
        w5 == push_paren(w4, right_paren, "(")
        w6 == write_expr(w5, rhs)
    IN  push_paren(w6, right_paren, ")")

write_tuple_items(w, exprs, i) ==
    IF ~IsWriter(w) THEN w ELSE
    IF i > Len(exprs) THEN w
    ELSE write_tuple_items(
            write_expr(IF i # 1 THEN push_str(w, ", ") ELSE w, exprs[i]),
            exprs, i + 1)

\* a slip: the closing parenthesis of a tuple is not written
write_tuple_unclosed(w, exprs) ==
    write_tuple_items(push_char(w, "("), exprs, 1)

write_tuple(w, exprs) ==
    push_char(write_tuple_items(push_char(w, "("), exprs, 1), ")")

write_column_ref(w, col) ==
    IF col.ref = "Column"
    THEN LET w1 == IF col.column.table # None
                   THEN push_char(write_table_name(w, col.column.table[1]), ".")
                   ELSE w
         IN  write_iden(w1, col.column.iden)
    ELSE LET w1 == IF col.table # None
                   THEN push_char(write_table_name(w, col.table[1]), ".")
                   ELSE w
         IN  push_char(w1, "*")

\* a slip: the arguments are walked from the last to the first
RECURSIVE write_function_args_reversed(_, _, _)
write_function_args_reversed(w, args, i) ==
    IF ~IsWriter(w) THEN w ELSE
    IF i > Len(args) THEN w
    ELSE write_function_args_reversed(
            write_expr(IF i > 1 THEN push_str(w, ", ") ELSE w,
                       args[Len(args) + 1 - i]),
            args, i + 1)

\* write_function_call wrapping every argument that is not an atom
RECURSIVE write_function_args_wrapped(_, _, _)
write_function_args_wrapped(w, args, i) ==
    IF ~IsWriter(w) THEN w ELSE
    IF i > Len(args) THEN w
    ELSE write_function_args_wrapped(
            push_paren(
                write_expr(push_paren(IF i > 1 THEN push_str(w, ", ") ELSE w,
                                      ~well_known_no_parentheses(args[i]), "("),
                           args[i]),
                ~well_known_no_parentheses(args[i]), ")"),
            args, i + 1)

write_function_args(w, args, i) ==
    IF ~IsWriter(w) THEN w ELSE
    IF i > Len(args) THEN w
    ELSE write_function_args(
            write_expr(IF i > 1 THEN push_str(w, ", ") ELSE w, args[i]),
            args, i + 1)

write_function_call(w, call) ==
    LET w1 == push_str(w, CASE call.func = "Max" -> "MAX"
                            [] call.func = "Min" -> "MIN"
                            [] call.func = "Sum" -> "SUM"
                            [] call.func = "Avg" -> "AVG"
                            [] call.func = "Count" -> "COUNT"
                            [] call.func = "Coalesce" -> "COALESCE")
    IN  push_char(write_function_args(push_char(w1, "("), call.args, 1), ")")

\* a slip: the guard matches the tuple of one element
is_empty_tuple_unit(e) == e.kind = "Tuple" /\ Len(e.exprs) = 1

\* a slip: the guard never matches
is_empty_tuple_never(e) == FALSE

\* the match guard `Expr::Tuple(t) if t.is_empty()`
is_empty_tuple(e) == e.kind = "Tuple" /\ e.exprs = <<>>

write_expr(w, e) ==
    IF ~IsWriter(w) THEN w ELSE
    CASE e.kind = "Column" -> write_column_ref(w, e.col)
      [] e.kind = "Asterisk" -> push_char(w, "*")
      [] e.kind = "Keyword" -> push_str(w, "NULL")
      [] e.kind = "Tuple" -> write_tuple(w, e.exprs)
      [] e.kind = "Value" -> push_param(w, e.value)
      [] e.kind = "Unary" -> write_unary_expr(w, e.op, e.expr)
      [] e.kind = "Binary" ->
            IF e.op = "In" /\ is_empty_tuple(e.rhs)
            THEN \* 1 = 2 is always false <=> IN () is always false
                 write_binary_expr(w, Expr_Value(IntValue(1)), "Equal",
                                   Expr_Value(IntValue(2)))
            ELSE IF e.op = "NotIn" /\ is_empty_tuple(e.rhs)
            THEN \* 1 = 1 is always true <=> NOT IN () is always true
                 write_binary_expr(w, Expr_Value(IntValue(1)), "Equal",
                                   Expr_Value(IntValue(1)))
            ELSE write_binary_expr(w, e.lhs, e.op, e.rhs)
      [] e.kind = "FunctionCall" -> write_function_call(w, e.call)
      [] e.kind = "SubQuery" ->
            LET w1 == IF e.op # None
                      THEN push_str(w, CASE e.op[1] = "Exists" -> "EXISTS"
                                         [] e.op[1] = "Any" -> "ANY"
                                         [] e.op[1] = "Some" -> "SOME"
                                         [] e.op[1] = "All" -> "ALL")
                      ELSE w
            IN  push_char(write_select(push_char(w1, "("), e.query), ")")
      [] e.kind = "Custom" -> push_str(w, e.text)

\* if let Some(alias) = alias { w.push_str(" AS "); write_iden(w, alias) }
write_alias(w, alias) ==
    IF alias # None THEN write_iden(push_str(w, " AS "), alias[1]) ELSE w

write_table_ref(w, table_ref) ==
    IF table_ref.ref = "Table"
    THEN write_alias(write_table_name(w, table_ref.table), table_ref.alias)
    ELSE write_iden(
            push_str(push_char(write_select(push_char(w, "("), table_ref.query), ")"),
                     " AS "),
            table_ref.alias)

write_select_expr(w, select_expr) ==
    write_alias(write_expr(w, select_expr.expr), select_expr.alias)

write_order_nulls(w, nulls) ==
    IF nulls # None
    THEN push_str(w, IF nulls[1] = "First" THEN " NULLS FIRST" ELSE " NULLS LAST")
    ELSE w

write_order(w, order) ==
    write_order_nulls(
        push_str(write_expr(w, order.expr),
                 IF order.direction = "Asc" THEN " ASC" ELSE " DESC"),
        order.nulls)

write_lock_tables(w, tables) ==
    IF tables # <<>> THEN write_idens(push_str(w, " OF "), tables, 1) ELSE w

write_lock_behavior(w, behavior) ==
    IF behavior # None
    THEN push_str(w, IF behavior[1] = "Nowait" THEN " NOWAIT" ELSE " SKIP LOCKED")
    ELSE w

write_row_level_lock(w, lock) ==
    LET w1 == push_str(w, CASE lock.ty = "Update" -> " FOR UPDATE"
                            [] lock.ty = "NoKeyUpdate" -> " FOR NO KEY UPDATE"
                            [] lock.ty = "Share" -> " FOR SHARE"
                            [] lock.ty = "KeyShare" -> " FOR KEY SHARE")
        w2 == write_lock_tables(w1, lock.tables)
    IN  write_lock_behavior(w2, lock.behavior)

write_select_exprs(w, selects, i) ==
    IF ~IsWriter(w) THEN w ELSE
    IF i > Len(selects) THEN w
    ELSE write_select_exprs(
            write_select_expr(IF i > 1 THEN push_str(w, ", ") ELSE w, selects[i]),
            selects, i + 1)

write_from(w, from, i) ==
    IF ~IsWriter(w) THEN w ELSE
    IF i > Len(from) THEN w
    ELSE write_from(
            write_table_ref(push_str(w, IF i = 1 THEN " FROM " ELSE ", "), from[i]),
            from, i + 1)

write_repeatable(w, repeatable) ==
    IF repeatable # None
    THEN push_str(push_fmt(push_str(w, " REPEATABLE ("), repeatable[1]), ")")
    ELSE w

write_table_sample(w, table_sample) ==
    IF table_sample # None
    THEN LET w1 == push_str(w, IF table_sample[1].method = "BERNOULLI"
                               THEN " TABLESAMPLE BERNOULLI"
                               ELSE " TABLESAMPLE SYSTEM")
             w2 == push_str(push_fmt(push_str(w1, " ("),
                                     table_sample[1].percentage), ")")
         IN  write_repeatable(w2, table_sample[1].repeatable)
    ELSE w

write_join_on(w, on) ==
    IF on # None THEN write_expr(push_str(w, " ON "), on[1]) ELSE w

write_joins(w, joins) ==
    IF ~IsWriter(w) THEN w ELSE
    IF joins = <<>> THEN w
    ELSE LET join == Head(joins)
             w1 == push_str(w, IF join.join_type = "LeftJoin"
                               THEN " LEFT JOIN " ELSE " INNER JOIN ")
             w2 == write_table_ref(w1, join.table)
             w3 == write_join_on(w2, join.on)
         IN  write_joins(w3, Tail(joins))

write_groups(w, groups, i) ==
    IF ~IsWriter(w) THEN w ELSE
    IF i > Len(groups) THEN w
    ELSE write_groups(
            write_expr(IF i > 1 THEN push_str(w, ", ") ELSE w, groups[i]),
            groups, i + 1)

write_orders(w, orders, i) ==
    IF ~IsWriter(w) THEN w ELSE
    IF i > Len(orders) THEN w
    ELSE write_orders(
            write_order(IF i > 1 THEN push_str(w, ", ") ELSE w, orders[i]),
            orders, i + 1)

\* if let Some(condition) = Expr::from_conditions(..) { w.push_str(keyword); .. }
write_condition(w, keyword, condition) ==
    IF condition # None THEN write_expr(push_str(w, keyword), condition[1]) ELSE w

write_group_by(w, groups) ==
    IF groups # <<>> THEN write_groups(push_str(w, " GROUP BY "), groups, 1) ELSE w

write_order_by(w, orders) ==
    IF orders # <<>> THEN write_orders(push_str(w, " ORDER BY "), orders, 1) ELSE w

\* if let Some(n) = select.limit { w.push_str(keyword); w.push_fmt(n) }
write_count(w, keyword, n) ==
    IF n # None THEN push_fmt(push_str(w, keyword), n[1]) ELSE w

write_lock(w, lock) ==
    IF lock # None THEN write_row_level_lock(w, lock[1]) ELSE w

\* the loop over the values of one row of a VALUES query
write_cte_row(w, row, k) ==
    IF ~IsWriter(w) THEN w ELSE
    IF k > Len(row) THEN w
    ELSE write_cte_row(
            write_value(IF k > 1 THEN push_str(w, ", ") ELSE w, row[k]),
            row, k + 1)

\* the loop over the rows of a VALUES query
write_cte_rows(w, values, j) ==
    IF ~IsWriter(w) THEN w ELSE
    IF j > Len(values) THEN w
    ELSE write_cte_rows(
            push_char(write_cte_row(
                        push_char(IF j > 1 THEN push_str(w, ", ") ELSE w, "("),
                        values[j], 1), ")"),
            values, j + 1)

write_cte_columns(w, columns) ==
    IF columns = <<>> THEN push_str(w, " ")
    ELSE push_str(write_idens(push_str(w, " ("), columns, 1), ") ")

write_cte_materialized(w, materialized) ==
    IF materialized = None THEN push_str(w, " AS ")
    ELSE IF materialized[1] THEN push_str(w, " AS MATERIALIZED ")
    ELSE push_str(w, " AS NOT MATERIALIZED ")

write_cte_query(w, query) ==
    IF query.query = "Select"
    THEN push_char(write_select(push_char(w, "("), query.select), ")")
    ELSE write_cte_rows(push_str(w, "VALUES "), query.rows, 1)

\* the loop over the common table expressions
write_ctes(w, ctes, i) ==
    IF ~IsWriter(w) THEN w ELSE
    IF i > Len(ctes) THEN w
    ELSE write_ctes(
            write_cte_query(
                write_cte_materialized(
                    write_cte_columns(
                        write_iden(IF i > 1 THEN push_str(w, ", ") ELSE w,
                                   ctes[i].name),
                        ctes[i].columns),
                    ctes[i].materialized),
                ctes[i].query),
            ctes, i + 1)

write_with(w, with) == write_ctes(push_str(w, "WITH "), with.ctes, 1)

\* if let Some(with) = &select.with { write_with(w, with); w.push_char(' ') }
write_with_clause(w, with) ==
    IF with # None THEN push_char(write_with(w, with[1]), " ") ELSE w

\* write_select with HAVING written before GROUP BY
write_select_having_first(w, select) ==
    IF ~IsWriter(w) THEN w ELSE
    LET w0 == write_with_clause(w, select.with)
        w1 == push_str(w0, "SELECT ")
        w2 == write_select_exprs(w1, select.selects, 1)
        w3 == write_from(w2, select.from, 1)
        w4 == write_table_sample(w3, select.table_sample)
        w5 == write_joins(w4, select.joins)
        w6 == write_condition(w5, " WHERE ", from_conditions(select.conditions))
        w7 == write_condition(w6, " HAVING ", from_conditions(select.having))
        w8 == write_group_by(w7, select.groups)
        w9 == write_order_by(w8, select.orders)
        w10 == write_count(w9, " LIMIT ", select.limit)
        w11 == write_count(w10, " OFFSET ", select.offset)
    IN  write_lock(w11, select.lock)

write_select(w, select) ==
    IF ~IsWriter(w) THEN w ELSE
    LET w0 == write_with_clause(w, select.with)
        w1 == push_str(w0, "SELECT ")
        w2 == write_select_exprs(w1, select.selects, 1)
        w3 == write_from(w2, select.from, 1)
        w4 == write_table_sample(w3, select.table_sample)
        w5 == write_joins(w4, select.joins)
        w6 == write_condition(w5, " WHERE ", from_conditions(select.conditions))
        w7 == write_group_by(w6, select.groups)
        w8 == write_condition(w7, " HAVING ", from_conditions(select.having))
        w9 == write_order_by(w8, select.orders)
        w10 == write_count(w9, " LIMIT ", select.limit)
        w11 == write_count(w10, " OFFSET ", select.offset)
    IN  write_lock(w11, select.lock)

\* Select::to_sql, Select::to_values
Select_to_sql(select) == write_select(StringWriter, select).sql

\* to_values going on with the value list of the writer it returned before
Select_to_values_reused(select) ==
    write_select(IF out = None THEN SqlWriterValues_new
                 ELSE [out[1] EXCEPT !.sql = <<>>], select)

Select_to_values(select) == write_select(SqlWriterValues_new, select)

(***************************************************************************)
(* The inputs of the exploration.                                          *)
(***************************************************************************)
Column(name) == Expr_Column(ColumnRef_Column(ColumnName(None, Iden_new(name))))
QualifiedColumn(table, name) ==
    Expr_Column(ColumnRef_Column(
        ColumnName(Some(TableName(None, Iden_new(table))), Iden_new(name))))
Expr_value(v) == Expr_Value(v)

\* Select::new().column("id").from("glyph").and_where(Expr::column("aspect").eq(7))
GlyphQuery ==
    [Select_new EXCEPT
        !.selects = <<SelectExpr(Column(<<"i", "d">>), None)>>,
        !.from = <<TableRef_Table(TableName(None, Iden_new(<<"g">>)), None)>>,
        !.conditions = <<binary(Column(<<"a">>), "Equal", Expr_value(IntValue(7)))>>]

Queries == {GlyphQuery}

\* what an expression starts from
Leaves ==
    { QualifiedColumn(<<"g">>, <<"a", "\"">>),
      Expr_value(StringValue(<<"i", "t", "'", "s">>)),
      Expr_Asterisk,
      Expr_Custom("x OR y"),
      Expr_SubQuery(Some("Exists"), GlyphQuery) }

\* the operands handed to a combinator
Args == { Expr_value(IntValue(2)) }
LeftArgs == { Expr_value(BoolValue(TRUE)) }
Endpoints ==
    { Expr_value(IntValue(3)), Expr_Custom("y"),
      binary(Column(<<"b">>), "And", Expr_value(IntValue(5))) }
InLists ==
    { <<>>, <<Expr_value(IntValue(3))>>,
      <<Expr_value(IntValue(3)), Column(<<"b">>)>> }

Max(a, b) == IF a >= b THEN a ELSE b

RECURSIVE Depth(_)
RECURSIVE DepthAll(_)
DepthAll(es) == IF es = <<>> THEN 0 ELSE Max(Depth(Head(es)), DepthAll(Tail(es)))
Depth(e) ==
    CASE e.kind = "Binary" ->
            \* the AND pair of a BETWEEN is part of the same, trinary, node
            IF e.op \in {"Between", "NotBetween"}
               /\ e.rhs.kind = "Binary" /\ e.rhs.op = "And"
            THEN 1 + Max(Depth(e.lhs), Max(Depth(e.rhs.lhs), Depth(e.rhs.rhs)))
            ELSE 1 + Max(Depth(e.lhs), Depth(e.rhs))
      [] e.kind = "Unary" -> 1 + Depth(e.expr)
      [] e.kind = "Tuple" -> IF e.exprs = <<>> THEN 0 ELSE 1 + DepthAll(e.exprs)
      [] e.kind = "FunctionCall" -> 1 + DepthAll(e.call.args)
      [] OTHER -> 0

\* the operands of a left-nested fold over op: ((e1 op e2) op e3) ...
RECURSIVE ChainLen(_, _)
ChainLen(e, op) ==
    IF e.kind = "Binary" /\ e.op = op /\ Depth(e.rhs) = 0
    THEN LET n == ChainLen(e.lhs, op) IN IF n = 0 THEN 0 ELSE n + 1
    ELSE IF Depth(e) = 0 THEN 1 ELSE 0

CanGrow == Depth(expr) < MaxDepth
CanFold(op) == ChainLen(expr, op) > 0 /\ ChainLen(expr, op) < MaxChain
Building == sql = None /\ out = None

(***************************************************************************)
(* The expression builder and the two render entry points.                 *)
(***************************************************************************)
Init ==
    /\ expr \in Leaves
    /\ sql = None
    /\ out = None
    /\ str = <<>>
    /\ lit = None
    /\ NoBuilders

\* self.binary(op, rhs) and its sugar: and, or, eq, ne, gt, ..., add, sub, ...
Binary(op, rhs) ==
    /\ Building
    /\ CanGrow \/ CanFold(op)
    /\ expr' = binary(expr, op, rhs)
    /\ UNCHANGED <<sql, out, str, lit, builders>>

\* lhs.binary(op, self): the expression becomes a right operand
BinaryRight(lhs, op) ==
    /\ Building
    /\ CanGrow
    /\ expr' = binary(lhs, op, expr)
    /\ UNCHANGED <<sql, out, str, lit, builders>>

Not ==
    /\ Building
    /\ CanGrow
    /\ expr' = not(expr)
    /\ UNCHANGED <<sql, out, str, lit, builders>>

Between(a, b) ==
    /\ Building
    /\ CanGrow
    /\ expr' = between(expr, a, b)
    /\ UNCHANGED <<sql, out, str, lit, builders>>

NotBetween(a, b) ==
    /\ Building
    /\ CanGrow
    /\ expr' = not_between(expr, a, b)
    /\ UNCHANGED <<sql, out, str, lit, builders>>

IsIn(v) ==
    /\ Building
    /\ CanGrow
    /\ expr' = Expr_is_in(expr, v)
    /\ UNCHANGED <<sql, out, str, lit, builders>>

IsNotIn(v) ==
    /\ Building
    /\ CanGrow
    /\ expr' = Expr_is_not_in(expr, v)
    /\ UNCHANGED <<sql, out, str, lit, builders>>

IsNull ==
    /\ Building
    /\ CanGrow
    /\ expr' = is_null(expr)
    /\ UNCHANGED <<sql, out, str, lit, builders>>

IsNotNull ==
    /\ Building
    /\ CanGrow
    /\ expr' = is_not_null(expr)
    /\ UNCHANGED <<sql, out, str, lit, builders>>

InSubquery(query) ==
    /\ Building
    /\ CanGrow
    /\ expr' = in_subquery(expr, query)
    /\ UNCHANGED <<sql, out, str, lit, builders>>

\* max, min, sum, avg, count
Aggregate(func) ==
    /\ Building
    /\ CanGrow
    /\ expr' = aggregate(expr, func)
    /\ UNCHANGED <<sql, out, str, lit, builders>>

IfNull(value) ==
    /\ Building
    /\ CanGrow
    /\ expr' = if_null(expr, value)
    /\ UNCHANGED <<sql, out, str, lit, builders>>

\* Expr::tuple([self, other])
Tuple(other) ==
    /\ Building
    /\ CanGrow
    /\ expr' = Expr_Tuple(<<expr, other>>)
    /\ UNCHANGED <<sql, out, str, lit, builders>>

\* Select::new().expr(expr)
Statement == [Select_new EXCEPT !.selects = <<SelectExpr(expr, None)>>]

\* Select::to_sql takes &self: it may be called again on a rendered statement
ToSql ==
    /\ sql' = Some(Select_to_sql(Statement))
    /\ UNCHANGED <<expr, out, str, lit, builders>>

\* Select::to_values takes &self, like to_sql
ToValues ==
    /\ out' = Some(Select_to_values(Statement))
    /\ UNCHANGED <<expr, sql, str, lit, builders>>

Next ==
    \/ \E op \in BinaryOp, rhs \in Args : Binary(op, rhs)
    \/ \E lhs \in LeftArgs, op \in BinaryOp : BinaryRight(lhs, op)
    \/ Not
    \/ \E a \in Endpoints, b \in Endpoints : Between(a, b)
    \/ \E a \in Endpoints, b \in Endpoints : NotBetween(a, b)
    \/ \E v \in InLists : IsIn(v)
    \/ \E v \in InLists : IsNotIn(v)
    \/ IsNull
    \/ IsNotNull
    \/ \E query \in Queries : InSubquery(query)
    \/ \E func \in Func \ {"Coalesce"} : Aggregate(func)
    \/ \E value \in Args : IfNull(value)
    \/ \E other \in Args : Tuple(other)
    \/ ToSql
    \/ ToValues

Spec == Init /\ [][Next]_vars

(***************************************************************************)
(* write_string_value on its own: the string is built character by         *)
(* character, then written as a literal.                                   *)
(***************************************************************************)
StrChars ==
    {"a", "0", "1", "'", "\\", "<NUL>", "<SOH>", "<BS>", "<TAB>", "<LF>", "<FF>",
     "<CR>", "<DEL>"}

InitStr ==
    /\ expr = Expr_Asterisk
    /\ sql = None
    /\ out = None
    /\ str = <<>>
    /\ lit = None
    /\ NoBuilders

\* String::push
PushChar(c) ==
    /\ lit = None
    /\ Len(str) < MaxStrLen
    /\ str' = Append(str, c)
    /\ UNCHANGED <<expr, sql, out, lit, builders>>

WriteStringValue ==
    /\ lit = None
    /\ lit' = Some(write_string_value(StringWriter, str).sql)
    /\ UNCHANGED <<expr, sql, out, str, builders>>

NextStr ==
    \/ \E c \in StrChars : PushChar(c)
    \/ WriteStringValue

SpecStr == InitStr /\ [][NextStr]_vars

(***************************************************************************)
(* Vocabulary of the properties.                                           *)
(***************************************************************************)
\* the fragments written for an expression / a value into a fresh String
Inline(e) == write_expr(StringWriter, e).sql
Literal(v) == write_value(StringWriter, v).sql
OpText(op) == write_binary_op(StringWriter, op).sql
Paren(p, frags) == IF p THEN <<"(">> \o frags \o <<")">> ELSE frags

\* the statement is SELECT <expr>: the fragments after "SELECT "
SqlExpr == Tail(sql[1])
OutExpr == Tail(out[1].sql)

Placeholder(n) == "$" \o ToString(n)

\* the values of the Value nodes that a statement renders, left to right
RECURSIVE ValuesOf(_)
RECURSIVE ValuesOfAll(_)
RECURSIVE ValuesOfSelect(_)
ValuesOfAll(es) ==
    IF es = <<>> THEN <<>> ELSE ValuesOf(Head(es)) \o ValuesOfAll(Tail(es))
ValuesOf(e) ==
    CASE e.kind = "Value" -> <<e.value>>
      [] e.kind = "Tuple" -> ValuesOfAll(e.exprs)
      [] e.kind = "Unary" -> ValuesOf(e.expr)
      [] e.kind = "Binary" ->
            IF e.op = "In" /\ e.rhs = Expr_Tuple(<<>>)
            THEN <<IntValue(1), IntValue(2)>>
            ELSE IF e.op = "NotIn" /\ e.rhs = Expr_Tuple(<<>>)
            THEN <<IntValue(1), IntValue(1)>>
            ELSE ValuesOf(e.lhs) \o ValuesOf(e.rhs)
      [] e.kind = "FunctionCall" -> ValuesOfAll(e.call.args)
      [] e.kind = "SubQuery" -> ValuesOfSelect(e.query)
      [] OTHER -> <<>>
ValuesOfSelect(q) ==
    ValuesOfAll([i \in 1..Len(q.selects) |-> q.selects[i].expr])
        \o ValuesOfAll(q.conditions) \o ValuesOfAll(q.groups)
        \o ValuesOfAll(q.having)

(***************************************************************************)
(* Properties.                                                             *)
(***************************************************************************)
PlaceholdersOf(w) ==
    LET IsPlaceholder(t) == \E n \in 1..Len(w.sql) : t = Placeholder(n)
    IN  SelectSeq(w.sql, IsPlaceholder)

\* C1: in the text returned by to_values the placeholders are $1, $2, ..., $k
\* from left to right, the value list has k elements, and the value of $n
\* (index n-1) is the n-th Value the statement renders, also across tuples,
\* function calls and subqueries.
C1_PlaceholdersMatchValues ==
    out # None =>
        LET w == out[1]
        IN  /\ PlaceholdersOf(w) = [n \in 1..Len(w.values) |-> Placeholder(n)]
            /\ w.values = ValuesOf(expr)

C1_Witness ==
    /\ out # None
    /\ Len(out[1].values) >= 3
    /\ expr.kind = "Binary"
    /\ expr.rhs.kind = "SubQuery"
    /\ expr.lhs.kind = "FunctionCall"

\* the text of to_values with every placeholder replaced by the literal of
\* its value
SubstituteLiterals(w) ==
    [i \in 1..Len(w.sql) |->
        IF \E n \in 1..Len(w.values) : w.sql[i] = Placeholder(n)
        THEN Text(Literal(w.values[CHOOSE n \in 1..Len(w.values) :
                                        w.sql[i] = Placeholder(n)]))
        ELSE w.sql[i]]

\* C2: replacing each $n of the to_values text by the inline literal of the
\* n-th collected value gives exactly the to_sql text.
C2_ModesAgree ==
    (sql # None /\ out # None) =>
        Text(SubstituteLiterals(out[1])) = Text(sql[1])

C2_Witness ==
    /\ sql # None
    /\ out # None
    /\ Len(out[1].values) >= 2
    /\ \E n \in 1..Len(out[1].values) : out[1].values[n].type = "String"


(***************************************************************************)
(* Parentheses around the operands of the root node.                       *)
(***************************************************************************)
ArithmeticOps == {"Mul", "Div", "Mod", "Add", "Sub"}
ShiftOps == {"LShift", "RShift"}
ComparisonOps == {"LessThan", "LessThanOrEqual", "Equal", "GreaterThanOrEqual",
                  "GreaterThan", "NotEqual"}
InOps == {"In", "NotIn"}
LikeOps == {"Like", "NotLike"}
IsOps == {"Is", "IsNot"}
BetweenOps == {"Between", "NotBetween"}
LogicalOps == {"And", "Or"}
LeftAssociativeOps == {"And", "Or", "Add", "Sub", "Mul", "Div"}
AtomicKinds == {"Column", "Value", "Tuple", "Asterisk", "Keyword",
                "FunctionCall", "SubQuery"}

\* the precedence classes of the prose, high to low
ArithmeticClass == ArithmeticOps \cup ShiftOps
ComparisonClass == ComparisonOps \cup InOps \cup LikeOps \cup IsOps \cup BetweenOps
LogicalClass == LogicalOps
HigherClass(inner, outer) ==
    \/ inner \in ArithmeticClass /\ outer \in ComparisonClass \cup LogicalClass
    \/ inner \in ComparisonClass /\ outer \in LogicalClass
SameClass(a, b) ==
    \E class \in {ArithmeticClass, ComparisonClass, LogicalClass} :
        a \in class /\ b \in class

IsEmptyIn(e) == e.kind = "Binary" /\ e.op \in InOps /\ e.rhs = Expr_Tuple(<<>>)

\* to_sql has run and the root is a Binary node whose operands are written
RootWritten == sql # None /\ expr.kind = "Binary" /\ ~IsEmptyIn(expr)

\* <lhs> <op> <rhs> with the operands wrapped or not
RootForm(lp, rp) ==
    Paren(lp, Inline(expr.lhs)) \o <<" ">> \o OpText(expr.op) \o <<" ">>
        \o Paren(rp, Inline(expr.rhs))

LeftIs(p) ==
    /\ \E rp \in BOOLEAN : SqlExpr = RootForm(p, rp)
    /\ \A rp \in BOOLEAN : SqlExpr # RootForm(~p, rp)
RightIs(p) ==
    /\ \E lp \in BOOLEAN : SqlExpr = RootForm(lp, p)
    /\ \A lp \in BOOLEAN : SqlExpr # RootForm(lp, ~p)

\* the two elisions of write_binary_expr
LeftElided(e) ==
    e.lhs.kind = "Binary" /\ e.lhs.op = e.op /\ e.op \in LeftAssociativeOps
PairElided(e) ==
    e.op \in BetweenOps /\ e.rhs.kind = "Binary" /\ e.rhs.op = "And"

\* the pairs (child operator, parent operator) that leave the child bare
BareUnder(inner, outer) ==
    \/ /\ inner \in ArithmeticOps \cup ShiftOps
       /\ outer \in ComparisonOps \cup BetweenOps \cup InOps \cup LikeOps
                        \cup LogicalOps
    \/ /\ inner \in ComparisonOps \cup InOps \cup LikeOps \cup IsOps
       /\ outer \in LogicalOps

\* C3 (as stated): a Binary child is bare exactly when its class is strictly
\* higher than the parent's class (arithmetic, shift > comparison, IN, LIKE,
\* IS, BETWEEN > AND, OR), apart from the left-associativity elision and the
\* BETWEEN endpoint pair.
C3_ByClass ==
    RootWritten =>
        /\ (expr.lhs.kind = "Binary" /\ ~LeftElided(expr)) =>
                LeftIs(~HigherClass(expr.lhs.op, expr.op))
        /\ (expr.rhs.kind = "Binary" /\ ~PairElided(expr)) =>
                RightIs(~HigherClass(expr.rhs.op, expr.op))

\* C3 (amended): a Binary child is bare exactly when it is arithmetic or shift
\* under a comparison, IN, LIKE, BETWEEN, AND or OR parent, or comparison, IN,
\* LIKE or IS under an AND or OR parent; an arithmetic or shift child of
\* IS / IS NOT and a BETWEEN child of AND / OR are parenthesized. The
\* left-associativity elision and the BETWEEN endpoint pair stay apart.
C3_ByTable ==
    RootWritten =>
        /\ (expr.lhs.kind = "Binary" /\ ~LeftElided(expr)) =>
                LeftIs(~BareUnder(expr.lhs.op, expr.op))
        /\ (expr.rhs.kind = "Binary" /\ ~PairElided(expr)) =>
                RightIs(~BareUnder(expr.rhs.op, expr.op))

\* ("g"."a""" + 2) IS NULL: the arithmetic child of IS is wrapped
C3_Witness ==
    /\ RootWritten
    /\ expr.op = "Is"
    /\ expr.lhs.kind = "Binary"
    /\ expr.lhs.op = "Add"
    /\ LeftIs(TRUE)

\* Select::new().column("aspect").from("glyph")
\*     .and_where(Expr::column("aspect").between(3, 5))
\*     .and_where(Expr::column("aspect").not_between(8, 10))
Select18 ==
    LET aspect == Column(<<"a", "s", "p", "e", "c", "t">>)
    IN  [Select_new EXCEPT
            !.selects = <<SelectExpr(aspect, None)>>,
            !.from = <<TableRef_Table(
                          TableName(None, Iden_new(<<"g", "l", "y", "p", "h">>)),
                          None)>>,
            !.conditions =
                <<between(aspect, Expr_value(IntValue(3)), Expr_value(IntValue(5))),
                  not_between(aspect, Expr_value(IntValue(8)),
                              Expr_value(IntValue(10)))>>]

\* C4: a BETWEEN or NOT BETWEEN operand of AND or OR is wrapped in
\* parentheses, on either side; the two conditions of select_18 render as
\* ("aspect" BETWEEN 3 AND 5) AND ("aspect" NOT BETWEEN 8 AND 10).
C4_BetweenUnderLogicalWrapped ==
    /\ (RootWritten /\ expr.op \in LogicalOps) =>
            /\ (expr.lhs.kind = "Binary" /\ expr.lhs.op \in BetweenOps) =>
                    LeftIs(TRUE)
            /\ (expr.rhs.kind = "Binary" /\ expr.rhs.op \in BetweenOps) =>
                    RightIs(TRUE)
    /\ sql # None =>
            Text(Select_to_sql(Select18)) =
                "SELECT \"aspect\" FROM \"glyph\" WHERE "
                    \o "(\"aspect\" BETWEEN 3 AND 5) AND "
                    \o "(\"aspect\" NOT BETWEEN 8 AND 10)"

C4_Witness ==
    /\ RootWritten
    /\ expr.op = "Or"
    /\ expr.rhs.kind = "Binary"
    /\ expr.rhs.op = "NotBetween"
    /\ PairElided(expr.rhs)
    /\ RightIs(TRUE)

\* an operand as a link of a chain: wrapped unless atomic
Operand(e) == Paren(e.kind \notin AtomicKinds, Inline(e))

\* e1 op e2 op ... op en for the left-nested fold ((e1 op e2) op e3) ...
RECURSIVE ChainForm(_, _)
ChainForm(e, op) ==
    IF e.kind = "Binary" /\ e.op = op /\ Depth(e.rhs) = 0
    THEN ChainForm(e.lhs, op) \o <<" ">> \o OpText(op) \o <<" ">> \o Operand(e.rhs)
    ELSE Operand(e)

\* C5: for op in {AND, OR, +, -, *, /} a left child with the parent's
\* operator is bare, so a left-nested chain renders as e1 op e2 op ... op en
\* with no parentheses around any link; a right child with the parent's
\* operator is wrapped, and so is a left child with another operator of the
\* same class.
C5_LeftAssociative ==
    (RootWritten /\ expr.op \in LeftAssociativeOps) =>
        /\ (expr.lhs.kind = "Binary" /\ expr.lhs.op = expr.op) => LeftIs(FALSE)
        /\ ChainLen(expr, expr.op) >= 2 => SqlExpr = ChainForm(expr, expr.op)
        /\ (expr.rhs.kind = "Binary" /\ expr.rhs.op = expr.op) => RightIs(TRUE)
        /\ (/\ expr.lhs.kind = "Binary"
            /\ expr.lhs.op # expr.op
            /\ SameClass(expr.lhs.op, expr.op)) => LeftIs(TRUE)

\* a - 2 - 2 - 2
C5_Witness ==
    /\ RootWritten
    /\ expr.op = "Sub"
    /\ ChainLen(expr, "Sub") = MaxChain
    /\ SqlExpr = ChainForm(expr, "Sub")
    /\ \A i \in 1..Len(SqlExpr) : SqlExpr[i] \notin {"(", ")"}

\* C6: x.between(a, b) renders as <x> BETWEEN <a> AND <b> and
\* x.not_between(a, b) as <x> NOT BETWEEN <a> AND <b>, where <x>, <a> and <b>
\* are the operands, each bare or wrapped on its own: the AND pair as a whole
\* is never wrapped.
C6_BetweenShape ==
    (RootWritten /\ PairElided(expr)) =>
        \E px, pa, pb \in BOOLEAN :
            SqlExpr = Paren(px, Inline(expr.lhs))
                        \o <<" ", IF expr.op = "Between" THEN "BETWEEN"
                                  ELSE "NOT BETWEEN", " ">>
                        \o Paren(pa, Inline(expr.rhs.lhs))
                        \o <<" ", "AND", " ">>
                        \o Paren(pb, Inline(expr.rhs.rhs))

\* x NOT BETWEEN "b" AND 5 AND y with x itself a Binary node
C6_Witness ==
    /\ RootWritten
    /\ expr.op = "NotBetween"
    /\ PairElided(expr)
    /\ expr.lhs.kind = "Binary"
    /\ expr.rhs.lhs.kind = "Binary"
    /\ expr.rhs.rhs.kind = "Custom"


\* frags holds the run of fragments part
Contains(frags, part) ==
    \E i \in 1..(Len(frags) + 1 - Len(part)) :
        SubSeq(frags, i, i + Len(part) - 1) = part

\* IN or NOT IN followed by an empty list
HasEmptyList(frags) ==
    \E i \in 1..(Len(frags) - 3) :
        /\ frags[i] \in {"IN", "NOT IN"}
        /\ SubSeq(frags, i + 1, i + 3) = <<" ", "(", ")">>

\* the nodes that write_expr visits below and including e
RECURSIVE Written(_)
RECURSIVE WrittenAll(_)
WrittenAll(es) ==
    IF es = <<>> THEN {} ELSE Written(Head(es)) \cup WrittenAll(Tail(es))
Written(e) ==
    {e} \cup
        CASE e.kind = "Tuple" -> WrittenAll(e.exprs)
          [] e.kind = "Unary" -> Written(e.expr)
          [] e.kind = "Binary" ->
                IF IsEmptyIn(e) THEN {} ELSE Written(e.lhs) \cup Written(e.rhs)
          [] e.kind = "FunctionCall" -> WrittenAll(e.call.args)
          [] OTHER -> {}

\* e1, e2, ..., en
RECURSIVE Joined(_)
Joined(es) ==
    IF Len(es) = 1 THEN Inline(es[1])
    ELSE Inline(Head(es)) \o <<", ">> \o Joined(Tail(es))

\* C7: an IN over the empty tuple renders as 1 = 2 and a NOT IN over the
\* empty tuple as 1 = 1, whatever the left operand and wherever the node sits;
\* no IN or NOT IN is followed by an empty list; over a non-empty tuple the
\* node renders as <lhs> IN (e1, ..., en) / <lhs> NOT IN (e1, ..., en).
C7_EmptyInRewrite ==
    sql # None =>
        /\ \A n \in Written(expr) :
                IsEmptyIn(n) =>
                    /\ Text(Inline(n)) = (IF n.op = "In" THEN "1 = 2" ELSE "1 = 1")
                    /\ Contains(SqlExpr, Inline(n))
        /\ IsEmptyIn(expr) =>
                Text(sql[1]) = (IF expr.op = "In" THEN "SELECT 1 = 2"
                                ELSE "SELECT 1 = 1")
        /\ ~HasEmptyList(SqlExpr)
        /\ (/\ RootWritten
            /\ expr.op \in InOps
            /\ expr.rhs.kind = "Tuple") =>
                \E px \in BOOLEAN :
                    SqlExpr = Paren(px, Inline(expr.lhs))
                                \o <<" ", IF expr.op = "In" THEN "IN" ELSE "NOT IN",
                                     " ", "(">>
                                \o Joined(expr.rhs.exprs) \o <<")">>

\* (x NOT IN ()) AND 2 renders as 1 = 1 AND 2
C7_Witness ==
    /\ sql # None
    /\ expr.kind = "Binary"
    /\ expr.op = "And"
    /\ IsEmptyIn(expr.lhs)
    /\ expr.lhs.op = "NotIn"
    /\ expr.lhs.lhs.kind = "Custom"

\* NOT <operand>
UnaryForm(p) == <<"NOT", " ">> \o Paren(p, Inline(expr.expr))

\* C8: as an operand of a Binary node (one that writes its operands) or of a
\* Unary node, a Column, Value, Tuple, Asterisk, Keyword, FunctionCall or
\* SubQuery is bare and a Custom or Unary is wrapped; the text of a Custom is
\* emitted as it is.
C8_AtomsBare ==
    /\ RootWritten =>
        /\ expr.lhs.kind \in AtomicKinds => LeftIs(FALSE)
        /\ expr.rhs.kind \in AtomicKinds => RightIs(FALSE)
        /\ expr.lhs.kind \in {"Custom", "Unary"} => LeftIs(TRUE)
        /\ expr.rhs.kind \in {"Custom", "Unary"} => RightIs(TRUE)
    /\ (sql # None /\ expr.kind = "Unary") =>
        /\ expr.expr.kind \in AtomicKinds => SqlExpr = UnaryForm(FALSE)
        /\ expr.expr.kind \in {"Custom", "Unary"} => SqlExpr = UnaryForm(TRUE)
    /\ sql # None =>
        \A n \in Written(expr) :
            n.kind = "Custom" =>
                /\ Inline(n) = <<n.text>>
                /\ Contains(SqlExpr, <<n.text>>)

\* TRUE AND (NOT (x OR y))
C8_Witness ==
    /\ RootWritten
    /\ expr.lhs.kind = "Value"
    /\ expr.rhs.kind = "Unary"
    /\ expr.rhs.expr.kind = "Custom"
    /\ SqlExpr = RootForm(FALSE, TRUE)

\* the operators of a Binary operand that NOT leaves bare
BareUnderNot == ArithmeticOps \cup ShiftOps \cup ComparisonOps \cup InOps
                    \cup LikeOps \cup IsOps

\* C9 (as stated): NOT, one space, then the operand, wrapped unless it is
\* atomic or a Binary node of a class above the logical one (arithmetic,
\* shift, comparison, IN, LIKE, IS, BETWEEN).
C9_NotByClass ==
    (sql # None /\ expr.kind = "Unary" /\ expr.op = "Not") =>
        SqlExpr = UnaryForm(~(\/ expr.expr.kind \in AtomicKinds
                              \/ /\ expr.expr.kind = "Binary"
                                 /\ expr.expr.op \in ArithmeticClass
                                                        \cup ComparisonClass))

\* C9 (amended): NOT, one space, then the operand, wrapped unless it is
\* atomic or a Binary node whose operator is arithmetic, shift, comparison,
\* IN, LIKE or IS; a BETWEEN or NOT BETWEEN operand is wrapped, like an AND,
\* an OR, a Unary or a Custom operand.
C9_NotOperand ==
    (sql # None /\ expr.kind = "Unary" /\ expr.op = "Not") =>
        SqlExpr = UnaryForm(~(\/ expr.expr.kind \in AtomicKinds
                              \/ /\ expr.expr.kind = "Binary"
                                 /\ expr.expr.op \in BareUnderNot))

\* NOT (x BETWEEN a AND b)
C9_Witness ==
    /\ sql # None
    /\ expr.kind = "Unary"
    /\ expr.expr.kind = "Binary"
    /\ expr.expr.op = "Between"
    /\ PairElided(expr.expr)
    /\ SqlExpr = UnaryForm(TRUE)


(***************************************************************************)
(* The inverse of the escape rules of write_escaped_string.                *)
(***************************************************************************)
OctalDigit == {"0", "1", "2", "3", "4", "5", "6", "7"}
DigitValue(c) == CHOOSE n \in 0..7 : ToString(n) = c
CharOfCode(n) ==
    IF \E c \in DOMAIN ControlCode : ControlCode[c] = n
    THEN CHOOSE c \in DOMAIN ControlCode : ControlCode[c] = n
    ELSE "<?>"

\* backslash and three octal digits first, then the two-character escapes
RECURSIVE Unescape(_)
Unescape(cs) ==
    IF cs = <<>> THEN <<>>
    ELSE IF Head(cs) # "\\" THEN <<Head(cs)>> \o Unescape(Tail(cs))
    ELSE IF Len(cs) >= 4 /\ {cs[2], cs[3], cs[4]} \subseteq OctalDigit
    THEN <<CharOfCode(DigitValue(cs[2]) * 64 + DigitValue(cs[3]) * 8
                        + DigitValue(cs[4]))>>
            \o Unescape(SubSeq(cs, 5, Len(cs)))
    ELSE IF Len(cs) >= 2
    THEN <<CASE cs[2] = "b" -> "<BS>"
             [] cs[2] = "f" -> "<FF>"
             [] cs[2] = "n" -> "<LF>"
             [] cs[2] = "r" -> "<CR>"
             [] cs[2] = "t" -> "<TAB>"
             [] cs[2] = "0" -> "<NUL>"
             [] OTHER -> cs[2]>>
            \o Unescape(SubSeq(cs, 3, Len(cs)))
    ELSE cs

\* the body of a literal: between ' or E' and the closing '
Body(literal) ==
    IF Head(literal) = "E"
    THEN SubSeq(literal, 3, Len(literal) - 1)
    ELSE SubSeq(literal, 2, Len(literal) - 1)

Decode(literal) == Unescape(Body(literal))

\* C10: write_string_value always produces a literal, '...' or E'...',
\* decoding it with the inverse of the escape rules gives back the string,
\* and no other string (here: of one character) has the same literal.
C10_EscapeInvertible ==
    lit # None =>
        /\ Len(lit[1]) >= 2
        /\ lit[1][Len(lit[1])] = "'"
        /\ Head(lit[1]) = "'" \/ SubSeq(lit[1], 1, 2) = <<"E", "'">>
        /\ Decode(lit[1]) = str
        /\ \A c \in StrChars :
                <<c>> # str => write_string_value(StringWriter, <<c>>).sql # lit[1]

\* the strings on which the round trip does succeed: no NUL before a digit
C10_Scope ==
    \A i \in 1..(Len(str) - 1) : ~(str[i] = "<NUL>" /\ str[i + 1] \in AsciiDigit)

\* what holds of the code: the round trip succeeds unless a NUL is followed
\* by a digit
C10_InvertibleInScope ==
    (lit # None /\ C10_Scope) => Decode(lit[1]) = str

(***************************************************************************)
(* C11..C20: literals, identifiers, qualified names, condition lists,     *)
(* INSERT arity, column definitions, function calls and arrays.            *)
(***************************************************************************)

\* the characters that need a backslash escape
EscapedChars ==
    {"<BS>", "<FF>", "<LF>", "<CR>", "<TAB>", "\\", "'", "<NUL>"}
        \cup DOMAIN ControlCode

NeedsEscape(s) == \E i \in 1..Len(s) : s[i] \in EscapedChars

\* C11: a string literal starts with E' exactly when the string holds a
\* backspace, form feed, newline, carriage return, tab, backslash, single
\* quote, NUL or another ASCII control character; otherwise it is ' + the
\* string unchanged + '; every literal ends with '.  So a backslash is
\* written only inside an E-prefixed literal, and the body of an E-prefixed
\* literal differs from the string (something was escaped).
C11_EPrefixIffEscaped ==
    lit # None =>
        /\ Len(lit[1]) >= 2
        /\ lit[1][Len(lit[1])] = "'"
        /\ NeedsEscape(str) <=> SubSeq(lit[1], 1, 2) = <<"E", "'">>
        /\ ~NeedsEscape(str) => lit[1] = <<"'">> \o str \o <<"'">>
        /\ (\E i \in 1..Len(lit[1]) : lit[1][i] = "\\") => Head(lit[1]) = "E"
        /\ Head(lit[1]) = "E" => Body(lit[1]) # str

C11_Witness ==
    /\ str = <<"a", "<DEL>">>
    /\ lit = Some(<<"E", "'", "a", "\\", "1", "7", "7", "'">>)

(***************************************************************************)
(* SpecIden: one identifier, typed character by character, constructed by  *)
(* Iden::new and rendered by write_iden.                                   *)
(***************************************************************************)
MaxNameLen == 3    \* characters of an identifier name

NameChars == {"a", "Z", "_", "1", "\"", " "}

InitIden ==
    /\ expr = Expr_Asterisk
    /\ sql = None
    /\ out = None
    /\ str = <<>>
    /\ lit = None
    /\ NoBuilders

\* String::push on the name
NameChar(c) ==
    /\ qname = <<>>
    /\ Len(str) < MaxNameLen
    /\ str' = Append(str, c)
    /\ UNCHANGED <<expr, sql, out, lit, sel, ins, coldef, val, panic, qname, statements>>

\* Iden::new(name)
IdenNew ==
    /\ qname = <<>>
    /\ qname' = <<Iden_new(str)>>
    /\ UNCHANGED <<expr, sql, out, str, lit, sel, ins, coldef, val, panic, statements>>

\* write_iden(&mut String, &iden)
WriteIden ==
    /\ qname # <<>>
    /\ sql = None
    /\ sql' = Some(write_iden(StringWriter, qname[1]).sql)
    /\ UNCHANGED <<expr, out, str, lit, builders>>

NextIden ==
    \/ \E c \in NameChars : NameChar(c)
    \/ IdenNew
    \/ WriteIden

SpecIden == InitIden /\ [][NextIden]_vars

\* the three renderings of the test iden_rendering
IdenRendering ==
    /\ Text(write_iden(StringWriter,
                       Iden_new(<<"s", "i", "m", "p", "l", "e">>)).sql)
            = "\"simple\""
    /\ Text(write_iden(StringWriter,
                  Iden_new(<<"h", "a", "s", " ", "s", "p", "a", "c", "e">>)).sql)
            = "\"has space\""
    /\ Text(write_iden(StringWriter,
                  Iden_new(<<"h", "a", "s", "\"", "q", "u", "o", "t", "e">>)).sql)
            = "\"has\"\"quote\""

\* a name with every double quote doubled
RECURSIVE Doubled(_)
Doubled(name) ==
    IF name = <<>> THEN ""
    ELSE (IF Head(name) = "\"" THEN "\"\"" ELSE Head(name)) \o Doubled(Tail(name))

Quoted(name) == "\"" \o Doubled(name) \o "\""

\* C12: a rendered identifier is a double quote, the name with every
\* embedded double quote doubled, and a double quote (as in the three
\* examples); when the safe flag is true the fast path writes the same text
\* as the scanning path would.
C12_QuotedDoubled ==
    /\ IdenRendering
    /\ (sql # None /\ qname # <<>>) =>
        /\ Text(sql[1]) = Quoted(qname[1].name)
        /\ qname[1].escaped =>
            Text(sql[1]) = Text(write_iden(StringWriter,
                                [qname[1] EXCEPT !.escaped = FALSE]).sql)

C12_Witness ==
    /\ sql # None
    /\ qname # <<>>
    /\ qname[1].name = <<"a", "\"", "Z">>
    /\ Text(sql[1]) = "\"a\"\"Z\""

SafeName(name) ==
    /\ name[1] \in AsciiLower \cup AsciiUpper \cup {"_"}
    /\ \A i \in 2..Len(name) :
            name[i] \in AsciiLower \cup AsciiUpper \cup AsciiDigit \cup {"_"}

\* C13 as stated: the flag is true exactly when the name is non-empty, starts
\* with an ASCII letter or underscore and continues with ASCII letters,
\* digits or underscores.
C13_SafeIffNonEmptyWord ==
    qname # <<>> =>
        (qname[1].escaped <=> (qname[1].name # <<>> /\ SafeName(qname[1].name)))

\* C13: the flag computed by Iden::new is true exactly when the name is
\* empty, or starts with an ASCII letter or underscore and continues with
\* ASCII letters, digits or underscores.
C13_SafeIffEmptyOrWord ==
    qname # <<>> =>
        (qname[1].escaped <=> (qname[1].name = <<>> \/ SafeName(qname[1].name)))

C13_Witness ==
    /\ qname # <<>>
    /\ qname[1].name = <<>>
    /\ qname[1].escaped
    /\ sql # None
    /\ Text(sql[1]) = "\"\""

(***************************************************************************)
(* SpecName: a qualified name of one, two or three parts, converted by the *)
(* From impls of qualification.rs and rendered as a schema, table or       *)
(* column name.                                                            *)
(***************************************************************************)
MaxParts == 3

PartNames == {<<>>, <<"i", "d">>, <<"a", ".", "b">>, <<"\"">>, <<"e", " ">>}

InitName ==
    /\ expr = Expr_Asterisk
    /\ sql = None
    /\ out = None
    /\ str = <<>>
    /\ lit = None
    /\ NoBuilders

\* IntoIden::into_iden of the next element of the tuple
IntoIden(name) ==
    /\ sql = None
    /\ Len(qname) < MaxParts
    /\ qname' = Append(qname, Iden_new(name))
    /\ UNCHANGED <<expr, sql, out, str, lit, sel, ins, coldef, val, panic, statements>>

\* write_schema_name(w, &SchemaName::from(parts))
WriteSchemaName ==
    /\ sql = None
    /\ Len(qname) \in 1..2
    /\ sql' = Some(write_schema_name(StringWriter, SchemaName_from(qname)).sql)
    /\ UNCHANGED <<expr, out, str, lit, builders>>

\* write_table_name(w, &TableName::from(parts))
WriteTableName ==
    /\ sql = None
    /\ Len(qname) \in 1..3
    /\ sql' = Some(write_table_name(StringWriter, TableName_from(qname)).sql)
    /\ UNCHANGED <<expr, out, str, lit, builders>>

\* write_column_ref(w, &ColumnRef::Column(ColumnName::from(parts)))
WriteColumnName ==
    /\ sql = None
    /\ Len(qname) \in 1..3
    /\ sql' = Some(write_column_ref(StringWriter,
                        ColumnRef_Column(ColumnName_from(qname))).sql)
    /\ UNCHANGED <<expr, out, str, lit, builders>>

NextName ==
    \/ \E name \in PartNames : IntoIden(name)
    \/ WriteSchemaName
    \/ WriteTableName
    \/ WriteColumnName

SpecName == InitName /\ [][NextName]_vars

\* the quoted parts, outermost first, with one dot between neighbours
RECURSIVE Dotted(_)
Dotted(names) ==
    IF Len(names) = 1 THEN Quoted(names[1].name)
    ELSE Quoted(names[1].name) \o "." \o Dotted(Tail(names))

\* the fragments written outside a pair of double quotes
RECURSIVE Unquoted(_, _)
Unquoted(frags, inside) ==
    IF frags = <<>> THEN <<>>
    ELSE IF Head(frags) = "\"" THEN Unquoted(Tail(frags), ~inside)
    ELSE IF inside THEN Unquoted(Tail(frags), inside)
    ELSE <<Head(frags)>> \o Unquoted(Tail(frags), inside)

\* C14: a qualified name of one, two or three parts renders its parts in
\* the order given, each quoted as an identifier, with exactly one dot
\* between neighbours: the dots outside the quoted parts are as many as
\* there are qualifiers, and the text starts with a quoted part, never with
\* a dot.
C14_QualifiedName ==
    (sql # None /\ qname # <<>>) =>
        /\ Text(sql[1]) = Dotted(qname)
        /\ Unquoted(sql[1], FALSE) = [i \in 1..(Len(qname) - 1) |-> "."]
        /\ Head(sql[1]) = "\""

C14_Witness ==
    /\ sql # None
    /\ Len(qname) = 3
    /\ Text(sql[1]) = "\"a.b\".\"id\".\"\"\"\""

(***************************************************************************)
(* SpecSelect: a SELECT statement whose WHERE and HAVING lists grow by     *)
(* and_where / and_having and which is rendered by to_sql.                 *)
(***************************************************************************)
MaxConds == 3      \* conditions of one WHERE or HAVING list

Eq(name, n) == binary(Column(name), "Equal", Expr_value(IntValue(n)))

Conditions ==
    { Eq(<<"w">>, 3), Eq(<<"h">>, 4),
      binary(Column(<<"a">>), "Or", Column(<<"b">>)) }

CharacterQuery ==
    [Select_new EXCEPT
        !.selects = <<SelectExpr(Column(<<"c">>), None)>>,
        !.from = <<TableRef_Table(TableName(None, Iden_new(<<"t">>)), None)>>]

\* the statement of the test select_27
Select27 ==
    LET character == <<"c", "h", "a", "r", "a", "c", "t", "e", "r">>
        size_w == <<"s", "i", "z", "e", "_", "w">>
        size_h == <<"s", "i", "z", "e", "_", "h">>
    IN  [Select_new EXCEPT
            !.selects = <<SelectExpr(Column(character), None),
                          SelectExpr(Column(size_w), None),
                          SelectExpr(Column(size_h), None)>>,
            !.from = <<TableRef_Table(TableName(None, Iden_new(character)), None)>>,
            !.conditions = <<Eq(size_w, 3), Eq(size_h, 4), Eq(size_h, 5)>>]

InitSelect ==
    /\ expr = Expr_Asterisk
    /\ sql = None
    /\ out = None
    /\ str = <<>>
    /\ lit = None
    /\ qname = <<>>
    /\ sel = CharacterQuery
    /\ ins = None
    /\ coldef = None
    /\ val = None
    /\ panic = None
    /\ NoStatements

\* Select::and_where
AndWhere(e) ==
    /\ sql = None
    /\ Len(sel.conditions) < MaxConds
    /\ sel' = [sel EXCEPT !.conditions = Append(@, e)]
    /\ UNCHANGED <<expr, sql, out, str, lit, qname, ins, coldef, val, panic, statements>>

\* Select::and_having
AndHaving(e) ==
    /\ sql = None
    /\ Len(sel.having) < MaxConds
    /\ sel' = [sel EXCEPT !.having = Append(@, e)]
    /\ UNCHANGED <<expr, sql, out, str, lit, qname, ins, coldef, val, panic, statements>>

\* Select::to_sql
SelectToSql ==
    /\ sql = None
    /\ sql' = Some(Select_to_sql(sel))
    /\ UNCHANGED <<expr, out, str, lit, builders>>

NextSelect ==
    \/ \E e \in Conditions : AndWhere(e)
    \/ \E e \in Conditions : AndHaving(e)
    \/ SelectToSql

SpecSelect == InitSelect /\ [][NextSelect]_vars

\* ((c1 AND c2) AND ...) AND cn
RECURSIVE LeftNested(_)
LeftNested(cs) ==
    IF Len(cs) = 1 THEN cs[1]
    ELSE Expr_Binary(LeftNested(SubSeq(cs, 1, Len(cs) - 1)), "And", cs[Len(cs)])

Folded(cs) == IF cs = <<>> THEN None ELSE Some(LeftNested(cs))

\* the text of one condition of an AND chain: an OR is wrapped
ConditionText(c) ==
    IF c.kind = "Binary" /\ c.op = "Or"
    THEN "(" \o Text(write_expr(StringWriter, c).sql) \o ")"
    ELSE Text(write_expr(StringWriter, c).sql)

RECURSIVE AndJoined(_)
AndJoined(cs) ==
    IF Len(cs) = 1 THEN ConditionText(cs[1])
    ELSE ConditionText(cs[1]) \o " AND " \o AndJoined(Tail(cs))

Clause(keyword, cs) ==
    IF cs = <<>> THEN ""
    ELSE IF Len(cs) = 1 THEN keyword \o Text(write_expr(StringWriter, cs[1]).sql)
    ELSE keyword \o AndJoined(cs)

\* C15: from_conditions gives None for no condition, the condition itself
\* for one, and the left-nested AND chain in order for more; a statement
\* prints WHERE (HAVING) exactly when a condition was added with and_where
\* (and_having), followed by the conditions in the order they were added
\* (as in select_27).
C15_ConditionsFolded ==
    sel # None =>
        /\ from_conditions(sel.conditions) = Folded(sel.conditions)
        /\ from_conditions(sel.having) = Folded(sel.having)
        /\ Text(Select_to_sql(Select27)) =
              "SELECT \"character\", \"size_w\", \"size_h\" FROM \"character\""
                \o " WHERE \"size_w\" = 3 AND \"size_h\" = 4 AND \"size_h\" = 5"
        /\ sql # None =>
            /\ (\E i \in 1..Len(sql[1]) : sql[1][i] = " WHERE ")
                    <=> sel.conditions # <<>>
            /\ (\E i \in 1..Len(sql[1]) : sql[1][i] = " HAVING ")
                    <=> sel.having # <<>>
            /\ Text(sql[1]) = "SELECT \"c\" FROM \"t\""
                    \o Clause(" WHERE ", sel.conditions)
                    \o Clause(" HAVING ", sel.having)

C15_Witness ==
    /\ sel # None
    /\ sel.conditions = <<Eq(<<"h">>, 4), Eq(<<"w">>, 3), Eq(<<"h">>, 4)>>
    /\ sel.having = <<Eq(<<"w">>, 3)>>
    /\ sql # None
    /\ Text(sql[1]) = "SELECT \"c\" FROM \"t\" WHERE \"h\" = 4 AND \"w\" = 3"
                        \o " AND \"h\" = 4 HAVING \"w\" = 3"

(***************************************************************************)
(* SpecInsert: the builder of an INSERT statement: columns, values and     *)
(* select_from, with the arity assertions of the last two.                 *)
(***************************************************************************)
MaxColumns == 2    \* declared columns of an INSERT
MaxRows == 2       \* rows of a VALUES source

\* assert_eq!(left, right) without the check
assert_eq_unchecked(left, right) == None

\* assert_eq!(left, right): None, or the panic with the two sides
assert_eq(left, right) ==
    IF left = right THEN None ELSE Some([left |-> left, right |-> right])

Insert_new ==
    [table |-> None, columns |-> <<>>, source |-> None, defaults |-> None,
     returning |-> None]

InsertValueSource_Values(vs) == [source |-> "Values", rows |-> vs]
InsertValueSource_Select(select) == [source |-> "Select", query |-> select]

columns_len(select) == Len(select.selects)

\* the rows handed to Insert::values: up to MaxColumns + 1 values
Rows ==
    UNION { [1..n -> {Expr_value(IntValue(1)), Expr_value(BoolValue(TRUE))}] :
                n \in 0..(MaxColumns + 1) }

\* the statements handed to Insert::select_from: 0, 1 and 3 select expressions
Selects == {Select_new, CharacterQuery, Select27}

InitInsert ==
    /\ expr = Expr_Asterisk
    /\ sql = None
    /\ out = None
    /\ str = <<>>
    /\ lit = None
    /\ qname = <<>>
    /\ sel = None
    /\ ins = Some(Insert_new)
    /\ coldef = None
    /\ val = None
    /\ panic = None
    /\ NoStatements

\* Insert::columns with one more column
InsertColumns(name) ==
    /\ ins # None
    /\ Len(ins[1].columns) < MaxColumns
    /\ ins' = Some([ins[1] EXCEPT !.columns = Append(@, Iden_new(name))])
    /\ UNCHANGED <<expr, sql, out, str, lit, qname, sel, coldef, val, panic, statements>>

\* Insert::values; a panic drops the statement
InsertValues(values) ==
    /\ ins # None
    /\ ins[1].source # None /\ ins[1].source[1].source = "Values"
            => Len(ins[1].source[1].rows) < MaxRows
    /\ panic' = assert_eq(Len(values), Len(ins[1].columns))
    /\ ins' =
        IF assert_eq(Len(values), Len(ins[1].columns)) # None THEN None
        ELSE IF values = <<>> THEN ins
        ELSE IF ins[1].source # None /\ ins[1].source[1].source = "Values"
        THEN Some([ins[1] EXCEPT !.source = Some(InsertValueSource_Values(
                        Append(ins[1].source[1].rows, values)))])
        ELSE Some([ins[1] EXCEPT !.source =
                        Some(InsertValueSource_Values(<<values>>))])
    /\ UNCHANGED <<expr, sql, out, str, lit, qname, sel, coldef, val, statements>>

\* Insert::select_from; a panic drops the statement
InsertSelectFrom(select) ==
    /\ ins # None
    /\ panic' = assert_eq(columns_len(select), Len(ins[1].columns))
    /\ ins' =
        IF assert_eq(columns_len(select), Len(ins[1].columns)) # None THEN None
        ELSE Some([ins[1] EXCEPT !.source = Some(InsertValueSource_Select(select))])
    /\ UNCHANGED <<expr, sql, out, str, lit, qname, sel, coldef, val, statements>>

NextInsert ==
    \/ \E name \in {<<"a">>, <<"b">>} : InsertColumns(name)
    \/ \E values \in Rows : InsertValues(values)
    \/ \E select \in Selects : InsertSelectFrom(select)

SpecInsert == InitInsert /\ [][NextInsert]_vars

IsValues(insert) ==
    insert.source # None /\ insert.source[1].source = "Values"

\* C16: Insert::values panics exactly when the number of values differs
\* from the number of declared columns, and Insert::select_from exactly when
\* the SELECT's number of select expressions does; otherwise values puts the
\* row after the earlier rows (an empty row changes nothing) and select_from
\* replaces the value source, and neither touches anything else.
C16_ArityChecked ==
    [][ /\ \A values \in Rows : InsertValues(values) =>
            /\ panic' # None <=> Len(values) # Len(ins[1].columns)
            /\ panic' # None => panic' = Some([left |-> Len(values),
                                               right |-> Len(ins[1].columns)])
            /\ panic' = None =>
                /\ ins' # None
                /\ values = <<>> => ins' = ins
                /\ values # <<>> =>
                    /\ IsValues(ins'[1])
                    /\ ins'[1].source[1].rows =
                        (IF IsValues(ins[1]) THEN ins[1].source[1].rows ELSE <<>>)
                            \o <<values>>
                    /\ [ins'[1] EXCEPT !.source = None]
                            = [ins[1] EXCEPT !.source = None]
        /\ \A select \in Selects : InsertSelectFrom(select) =>
            /\ panic' # None <=> Len(select.selects) # Len(ins[1].columns)
            /\ panic' = None =>
                /\ ins' # None
                /\ ins'[1].source = Some([source |-> "Select", query |-> select])
                /\ [ins'[1] EXCEPT !.source = None]
                        = [ins[1] EXCEPT !.source = None]
      ]_vars

\* a row of one value was refused by a statement of two columns
C16_Witness ==
    /\ ins = None
    /\ panic = Some([left |-> 1, right |-> 2])

(***************************************************************************)
(* SpecColumn: the builder of a column definition: default, the two        *)
(* generated_as_*, and the type setters char, varchar, int and numeric.    *)
(* A panic drops the definition and leaves its message.                    *)
(***************************************************************************)
ColumnType_Char(size) == [ty |-> "Char", size |-> size]
ColumnType_Varchar(size) == [ty |-> "Varchar", size |-> size]
ColumnType_Int == [ty |-> "Int"]
ColumnType_Numeric(precision_scale) == [ty |-> "Numeric", ps |-> precision_scale]
ColumnType_Array(ty) == [ty |-> "Array", elem |-> ty]

GeneratedColumn(e, kind) == [expr |-> e, kind |-> kind]

ColumnDef_new(name) ==
    [name |-> Iden_new(name), ty |-> None,
     spec |-> [nullable |-> None, default |-> None, generated |-> None,
               unique |-> FALSE, primary_key |-> FALSE]]

\* the arguments of the builder calls
DefaultExprs == {Expr_value(IntValue(10)), Expr_value(BoolValue(TRUE))}
GeneratedExprs ==
    { binary(Column(<<"c">>), "Add", Expr_value(IntValue(5))),
      binary(Column(<<"c">>), "Mul", Expr_value(IntValue(2))) }
Sizes == {0, 1, 4}
Precisions == {-1, 0, 2, 1000, 1001}
\* ColumnType is a public enum: a caller makes any of its values
ElementTypes ==
    {ColumnType_Char(size) : size \in Sizes}
        \cup {ColumnType_Varchar(size) : size \in Sizes}
        \cup { ColumnType_Int,
               ColumnType_Numeric(None),
               ColumnType_Numeric(Some(<<2, 0>>)),
               ColumnType_Numeric(Some(<<0, 2>>)),
               ColumnType_Numeric(Some(<<1001, 0>>)),
               ColumnType_Array(ColumnType_Int),
               ColumnType_Array(ColumnType_Char(0)) }

InitColumn ==
    /\ expr = Expr_Asterisk
    /\ sql = None
    /\ out = None
    /\ str = <<>>
    /\ lit = None
    /\ qname = <<>>
    /\ sel = None
    /\ ins = None
    /\ coldef = Some(ColumnDef_new(<<"c">>))
    /\ val = None
    /\ panic = None
    /\ NoStatements

\* ColumnDef::default without its check
ColumnDefault_unchecked(e) ==
    /\ coldef # None
    /\ panic' = None
    /\ coldef' = Some([coldef[1] EXCEPT !.spec.default = Some(e)])
    /\ UNCHANGED <<expr, sql, out, str, lit, qname, sel, ins, val, statements>>

\* ColumnDef::default
ColumnDefault(e) ==
    /\ coldef # None
    /\ IF coldef[1].spec.generated # None
       THEN /\ panic' = Some("A generated column cannot have a default value.")
            /\ coldef' = None
       ELSE /\ panic' = None
            /\ coldef' = Some([coldef[1] EXCEPT !.spec.default = Some(e)])
    /\ UNCHANGED <<expr, sql, out, str, lit, qname, sel, ins, val, statements>>

\* ColumnDef::generated_as_stored
ColumnGeneratedAsStored(e) ==
    /\ coldef # None
    /\ IF coldef[1].spec.default # None
       THEN /\ panic' = Some("A generated column cannot have a default value.")
            /\ coldef' = None
       ELSE /\ panic' = None
            /\ coldef' = Some([coldef[1] EXCEPT
                            !.spec.generated = Some(GeneratedColumn(e, "Stored"))])
    /\ UNCHANGED <<expr, sql, out, str, lit, qname, sel, ins, val, statements>>

\* ColumnDef::generated_as_virtual
ColumnGeneratedAsVirtual(e) ==
    /\ coldef # None
    /\ IF coldef[1].spec.default # None
       THEN /\ panic' = Some("A generated column cannot have a default value.")
            /\ coldef' = None
       ELSE /\ panic' = None
            /\ coldef' = Some([coldef[1] EXCEPT
                            !.spec.generated = Some(GeneratedColumn(e, "Virtual"))])
    /\ UNCHANGED <<expr, sql, out, str, lit, qname, sel, ins, val, statements>>

\* ColumnDef::char
ColumnChar(size) ==
    /\ coldef # None
    /\ IF size = 0
       THEN /\ panic' = Some("Character type size must be greater than zero.")
            /\ coldef' = None
       ELSE /\ panic' = None
            /\ coldef' = Some([coldef[1] EXCEPT !.ty = Some(ColumnType_Char(size))])
    /\ UNCHANGED <<expr, sql, out, str, lit, qname, sel, ins, val, statements>>

\* ColumnDef::varchar
ColumnVarchar(size) ==
    /\ coldef # None
    /\ IF size = 0
       THEN /\ panic' = Some("Character type size must be greater than zero.")
            /\ coldef' = None
       ELSE /\ panic' = None
            /\ coldef' = Some([coldef[1] EXCEPT !.ty = Some(ColumnType_Varchar(size))])
    /\ UNCHANGED <<expr, sql, out, str, lit, qname, sel, ins, val, statements>>

\* ColumnDef::int
ColumnInt ==
    /\ coldef # None
    /\ panic' = None
    /\ coldef' = Some([coldef[1] EXCEPT !.ty = Some(ColumnType_Int)])
    /\ UNCHANGED <<expr, sql, out, str, lit, qname, sel, ins, val, statements>>

\* ColumnDef::numeric with the check of the precision only
ColumnNumeric_precision_only(precision, scale) ==
    /\ coldef # None
    /\ IF precision > 1000
       THEN /\ panic' = Some("Numeric precision cannot be greater than 1000.")
            /\ coldef' = None
       ELSE /\ panic' = None
            /\ coldef' = Some([coldef[1] EXCEPT
                    !.ty = Some(ColumnType_Numeric(Some(<<precision, scale>>)))])
    /\ UNCHANGED <<expr, sql, out, str, lit, qname, sel, ins, val, statements>>

\* ColumnDef::numeric
ColumnNumeric(precision, scale) ==
    /\ coldef # None
    /\ IF scale > precision
       THEN /\ panic' = Some("Numeric scale cannot be greater than precision.")
            /\ coldef' = None
       ELSE IF precision > 1000
       THEN /\ panic' = Some("Numeric precision cannot be greater than 1000.")
            /\ coldef' = None
       ELSE /\ panic' = None
            /\ coldef' = Some([coldef[1] EXCEPT
                    !.ty = Some(ColumnType_Numeric(Some(<<precision, scale>>)))])
    /\ UNCHANGED <<expr, sql, out, str, lit, qname, sel, ins, val, statements>>

\* ColumnDef::array_of
ColumnArrayOf(ty) ==
    /\ coldef # None
    /\ panic' = None
    /\ coldef' = Some([coldef[1] EXCEPT !.ty = Some(ColumnType_Array(ty))])
    /\ UNCHANGED <<expr, sql, out, str, lit, qname, sel, ins, val, statements>>

NextColumn ==
    \/ \E e \in DefaultExprs : ColumnDefault(e)
    \/ \E e \in GeneratedExprs : ColumnGeneratedAsStored(e)
    \/ \E e \in GeneratedExprs : ColumnGeneratedAsVirtual(e)
    \/ \E size \in Sizes : ColumnChar(size)
    \/ \E size \in Sizes : ColumnVarchar(size)
    \/ ColumnInt
    \/ \E precision \in Precisions, scale \in Precisions :
            ColumnNumeric(precision, scale)
    \/ \E ty \in ElementTypes : ColumnArrayOf(ty)

SpecColumn == InitColumn /\ [][NextColumn]_vars

GeneratedWithDefault == Some("A generated column cannot have a default value.")

\* the call went through and changed nothing but the named part
Kept(part) ==
    /\ panic' = None
    /\ coldef' # None
    /\ CASE part = "ty" -> [coldef'[1] EXCEPT !.ty = None]
                                = [coldef[1] EXCEPT !.ty = None]
         [] part = "default" -> [coldef'[1] EXCEPT !.spec.default = None]
                                = [coldef[1] EXCEPT !.spec.default = None]
         [] part = "generated" -> [coldef'[1] EXCEPT !.spec.generated = None]
                                = [coldef[1] EXCEPT !.spec.generated = None]

\* C17: no column definition the builder produces has both a default and a
\* generated expression: default() on a generated column, and either
\* generated_as_*() on a column with a default, panics with 'A generated
\* column cannot have a default value.'; otherwise the call sets its part.
C17_DefaultExcludesGenerated ==
    /\ [](coldef # None =>
            ~(coldef[1].spec.default # None /\ coldef[1].spec.generated # None))
    /\ [][ /\ \A e \in DefaultExprs : ColumnDefault(e) =>
                IF coldef[1].spec.generated # None
                THEN panic' = GeneratedWithDefault /\ coldef' = None
                ELSE Kept("default") /\ coldef'[1].spec.default = Some(e)
           /\ \A e \in GeneratedExprs :
                (ColumnGeneratedAsStored(e) \/ ColumnGeneratedAsVirtual(e)) =>
                    IF coldef[1].spec.default # None
                    THEN panic' = GeneratedWithDefault /\ coldef' = None
                    ELSE /\ Kept("generated")
                         /\ coldef'[1].spec.generated # None
                         /\ coldef'[1].spec.generated[1].expr = e
         ]_vars

C17_Witness ==
    /\ coldef = None
    /\ panic = GeneratedWithDefault

\* C18: char(size) and varchar(size) panic exactly when size is 0;
\* numeric(precision, scale) panics exactly when scale > precision or
\* precision > 1000; otherwise the call sets the column type, replacing an
\* earlier one, and leaves the rest of the definition alone.
C18_TypeArguments ==
    [][ /\ \A size \in Sizes : ColumnChar(size) =>
            /\ panic' # None <=> size = 0
            /\ size # 0 => Kept("ty") /\ coldef'[1].ty = Some([ty |-> "Char", size |-> size])
        /\ \A size \in Sizes : ColumnVarchar(size) =>
            /\ panic' # None <=> size = 0
            /\ size # 0 => Kept("ty") /\ coldef'[1].ty = Some([ty |-> "Varchar", size |-> size])
        /\ \A precision \in Precisions, scale \in Precisions :
            ColumnNumeric(precision, scale) =>
                /\ panic' # None <=> (scale > precision \/ precision > 1000)
                /\ ~(scale > precision \/ precision > 1000) =>
                    /\ Kept("ty")
                    /\ coldef'[1].ty = Some([ty |-> "Numeric",
                                             ps |-> Some(<<precision, scale>>)])
      ]_vars

\* numeric(1000, 2) replaced the type varchar(4) of a column with a default
C18_Witness ==
    /\ coldef # None
    /\ coldef[1].ty = Some([ty |-> "Numeric", ps |-> Some(<<1000, 2>>)])
    /\ coldef[1].spec.default # None
    /\ panic = None

(***************************************************************************)
(* Function calls (checked under Spec).                                    *)
(***************************************************************************)
\* the statement of the test select_7
Select7 ==
    LET aspect == <<"a", "s", "p", "e", "c", "t">>
    IN  [Select_new EXCEPT
            !.selects = <<SelectExpr(Column(aspect), None)>>,
            !.from = <<TableRef_Table(
                            TableName(None, Iden_new(<<"g", "l", "y", "p", "h">>)),
                            None)>>,
            !.conditions = <<binary(if_null(Column(aspect), Expr_value(IntValue(0))),
                                    "GreaterThan", Expr_value(IntValue(2)))>>]

FuncName(func) ==
    CASE func = "Max" -> "MAX"
      [] func = "Min" -> "MIN"
      [] func = "Sum" -> "SUM"
      [] func = "Avg" -> "AVG"
      [] func = "Count" -> "COUNT"
      [] func = "Coalesce" -> "COALESCE"

\* each argument as it is written when it stands alone, ", " in between
RECURSIVE ArgsJoined(_)
ArgsJoined(args) ==
    IF args = <<>> THEN <<>>
    ELSE IF Len(args) = 1 THEN Inline(args[1])
    ELSE Inline(args[1]) \o <<", ">> \o ArgsJoined(Tail(args))

\* C19: a function call is written as its name, "(", its arguments in
\* order separated by ", ", and ")"; every argument is written as it is
\* when it stands alone, with no parentheses added around it whatever its
\* kind (as in select_7).
C19_FunctionCallShape ==
    /\ Text(Select_to_sql(Select7)) =
          "SELECT \"aspect\" FROM \"glyph\" WHERE COALESCE(\"aspect\", 0) > 2"
    /\ (sql # None /\ expr.kind = "FunctionCall") =>
            SqlExpr = <<FuncName(expr.call.func), "(">>
                        \o ArgsJoined(expr.call.args) \o <<")">>

\* COALESCE over an OR and a value: the OR is written bare
C19_Witness ==
    /\ sql # None
    /\ expr.kind = "FunctionCall"
    /\ expr.call.func = "Coalesce"
    /\ Len(expr.call.args) = 2
    /\ expr.call.args[1].kind = "Binary"
    /\ expr.call.args[1].op = "Or"
    /\ SqlExpr[3] # "("

(***************************************************************************)
(* SpecValue: an array value collected element by element, nested by       *)
(* Value::array, and rendered by write_value.                              *)
(***************************************************************************)
MaxElems == 3        \* elements of one array
MaxArrayDepth == 2   \* arrays inside arrays

Scalars ==
    { IntValue(1), BoolValue(TRUE), StringValue(<<"a", "'">>), NullValue("Array") }

RECURSIVE ArrayDepth(_)
ArrayDepth(v) ==
    IF v.some /\ v.type = "Array"
    THEN LET ds == {0} \cup {ArrayDepth(v.a[i]) : i \in 1..Len(v.a)}
         IN  1 + (CHOOSE d \in ds : \A e \in ds : e <= d)
    ELSE 0

InitValue ==
    /\ expr = Expr_Asterisk
    /\ sql = None
    /\ out = None
    /\ str = <<>>
    /\ lit = None
    /\ qname = <<>>
    /\ sel = None
    /\ ins = None
    /\ coldef = None
    /\ val = Some(ArrayValue(<<>>))
    /\ panic = None
    /\ NoStatements

\* Vec::push of the next element
PushValue(v) ==
    /\ lit = None
    /\ Len(val[1].a) < MaxElems
    /\ val' = Some(ArrayValue(Append(val[1].a, v)))
    /\ UNCHANGED <<expr, sql, out, str, lit, qname, sel, ins, coldef, panic, statements>>

\* Value::array([value])
ValueArray ==
    /\ lit = None
    /\ ArrayDepth(val[1]) < MaxArrayDepth
    /\ val' = Some(ArrayValue(<<val[1]>>))
    /\ UNCHANGED <<expr, sql, out, str, lit, qname, sel, ins, coldef, panic, statements>>

\* write_value(&mut String, &value)
WriteValue ==
    /\ lit = None
    /\ lit' = Some(write_value(StringWriter, val[1]).sql)
    /\ UNCHANGED <<expr, sql, out, str, builders>>

NextValue ==
    \/ \E v \in Scalars : PushValue(v)
    \/ ValueArray
    \/ WriteValue

SpecValue == InitValue /\ [][NextValue]_vars

\* the text of a value with the elements of an array separated by sep
RECURSIVE ValueText(_, _)
RECURSIVE ElementsText(_, _)
ElementsText(vs, sep) ==
    IF Len(vs) = 1 THEN ValueText(vs[1], sep)
    ELSE ValueText(vs[1], sep) \o sep \o ElementsText(Tail(vs), sep)

ValueText(v, sep) ==
    IF ~v.some THEN "NULL"
    ELSE IF v.type # "Array" THEN Text(Literal(v))
    ELSE IF v.a = <<>> THEN "'{}'"
    ELSE "ARRAY [" \o ElementsText(v.a, sep) \o "]"

\* C20 as stated: the elements of a non-empty array are separated by a
\* comma and a space.
C20_ArrayCommaSpace ==
    lit # None => Text(lit[1]) = ValueText(val[1], ", ")

\* C20: the empty array is written '{}', Array(None) is written NULL, and a
\* non-empty array is written ARRAY [, the literals of its elements in
\* order separated by a comma with no space, and ]; a nested array follows
\* the same rule.
C20_ArrayComma ==
    lit # None => Text(lit[1]) = ValueText(val[1], ",")

C20_Witness ==
    /\ lit # None
    /\ Text(lit[1]) = "ARRAY [ARRAY [1,NULL],TRUE,E'a\\'']"

(***************************************************************************)
(* C21..C30: purity of rendering, clause order, EXPLAIN options, ON        *)
(* CONFLICT, INSERT rows, RETURNING, the empty IN, injectivity, balance    *)
(* of parentheses and column type constraints.                             *)
(***************************************************************************)

MaxCalls == 3      \* builder calls that add a clause or an item

\* the number of items and of set clauses of a statement
Calls(s) ==
    Len(s.selects) + Len(s.from) + Len(s.joins) + Len(s.conditions)
    + Len(s.groups) + Len(s.having) + Len(s.orders)
    + Cardinality({f \in {"limit", "offset", "lock", "table_sample", "with"} :
                        s[f] # None})

Table(name) == TableRef_Table(TableName(None, Iden_new(name)), None)

ClauseColumns == {<<"a">>, <<"b">>}
ClauseOrders ==
    { Order(Column(<<"a">>), "Asc", None), Order(Column(<<"b">>), "Desc", None) }
Counts == {1, 10}
Locks == { RowLevelLock("Update", <<>>, None), RowLevelLock("Share", <<>>, None) }
Samples == { TableSample("SYSTEM", 100, None), TableSample("BERNOULLI", 10, None) }
Withs ==
    { With(<<CommonTableExpression(Iden_new(<<"x">>), <<Iden_new(<<"y">>)>>,
                                   Query_Select(CharacterQuery), None)>>) }

InitClauses ==
    /\ expr = Expr_Asterisk
    /\ sql = None
    /\ out = None
    /\ str = <<>>
    /\ lit = None
    /\ qname = <<>>
    /\ sel = Select_new
    /\ ins = None
    /\ coldef = None
    /\ val = None
    /\ panic = None
    /\ NoStatements

\* a builder method that changes the fields of the statement under build
Build(changed) ==
    /\ sql = None
    /\ sel' = changed
    /\ UNCHANGED <<expr, sql, out, str, lit, qname, ins, coldef, val, panic, statements>>

\* Select::column
SelectColumn(name) ==
    /\ Calls(sel) < MaxCalls
    /\ Build([sel EXCEPT !.selects = Append(@, SelectExpr(Column(name), None))])

\* Select::from
SelectFrom(name) ==
    /\ Calls(sel) < MaxCalls
    /\ Build([sel EXCEPT !.from = Append(@, Table(name))])

\* Select::left_join
SelectLeftJoin(name, on) ==
    /\ Calls(sel) < MaxCalls
    /\ Build([sel EXCEPT
                !.joins = Append(@, JoinExpr("LeftJoin", Table(name), Some(on)))])

\* Select::inner_join
SelectInnerJoin(name, on) ==
    /\ Calls(sel) < MaxCalls
    /\ Build([sel EXCEPT
                !.joins = Append(@, JoinExpr("InnerJoin", Table(name), Some(on)))])

\* Select::group_by_columns with one column
SelectGroupByColumns(name) ==
    /\ Calls(sel) < MaxCalls
    /\ Build([sel EXCEPT !.groups = Append(@, Column(name))])

\* Select::order_by with one order
SelectOrderBy(order) ==
    /\ Calls(sel) < MaxCalls
    /\ Build([sel EXCEPT !.orders = Append(@, order)])

\* Select::limit
SelectLimit(n) ==
    /\ Calls(sel) < MaxCalls \/ sel.limit # None
    /\ Build([sel EXCEPT !.limit = Some(n)])

\* Select::offset
SelectOffset(n) ==
    /\ Calls(sel) < MaxCalls \/ sel.offset # None
    /\ Build([sel EXCEPT !.offset = Some(n)])

\* Select::lock
SelectLock(lock) ==
    /\ Calls(sel) < MaxCalls \/ sel.lock # None
    /\ Build([sel EXCEPT !.lock = Some(lock)])

\* Select::table_sample
SelectTableSample(table_sample) ==
    /\ Calls(sel) < MaxCalls \/ sel.table_sample # None
    /\ Build([sel EXCEPT !.table_sample = Some(table_sample)])

\* Select::with
SelectWith(with) ==
    /\ Calls(sel) < MaxCalls \/ sel.with # None
    /\ Build([sel EXCEPT !.with = Some(with)])

NextClauses ==
    \/ \E name \in ClauseColumns : SelectColumn(name)
    \/ \E name \in {<<"t">>} : SelectFrom(name)
    \/ \E name \in {<<"u">>} : SelectLeftJoin(name, Eq(<<"w">>, 3))
    \/ \E name \in {<<"u">>} : SelectInnerJoin(name, Eq(<<"w">>, 3))
    \/ \E e \in Conditions : Calls(sel) < MaxCalls /\ AndWhere(e)
    \/ \E name \in ClauseColumns : SelectGroupByColumns(name)
    \/ \E e \in Conditions : Calls(sel) < MaxCalls /\ AndHaving(e)
    \/ \E order \in ClauseOrders : SelectOrderBy(order)
    \/ \E n \in Counts : SelectLimit(n)
    \/ \E n \in Counts : SelectOffset(n)
    \/ \E lock \in Locks : SelectLock(lock)
    \/ \E table_sample \in Samples : SelectTableSample(table_sample)
    \/ \E with \in Withs : SelectWith(with)
    \/ SelectToSql

SpecClauses == InitClauses /\ [][NextClauses]_vars

\* the statements of the tests select_1 and select_14
Select1 ==
    LET character == <<"c", "h", "a", "r", "a", "c", "t", "e", "r">>
    IN  [Select_new EXCEPT
            !.selects = <<SelectExpr(Column(character), None),
                          SelectExpr(Column(<<"s", "i", "z", "e", "_", "w">>), None),
                          SelectExpr(Column(<<"s", "i", "z", "e", "_", "h">>), None)>>,
            !.from = <<Table(character)>>,
            !.limit = Some(10),
            !.offset = Some(100)]

Select14 ==
    LET glyph == <<"g", "l", "y", "p", "h">>
        id == <<"i", "d">>
        aspect == <<"a", "s", "p", "e", "c", "t">>
    IN  [Select_new EXCEPT
            !.selects = <<SelectExpr(Column(id), None),
                          SelectExpr(Column(aspect), None),
                          SelectExpr(aggregate(Column(<<"i", "m", "a", "g", "e">>),
                                               "Max"), None)>>,
            !.from = <<Table(glyph)>>,
            !.groups = <<QualifiedColumn(glyph, id), QualifiedColumn(glyph, aspect)>>,
            !.having = <<binary(Column(aspect), "GreaterThan",
                                Expr_value(IntValue(2)))>>]

\* the texts of the items of a list, each written on its own, put together
\* with a separator
RECURSIVE Separated(_, _)
Separated(texts, sep) ==
    IF texts = <<>> THEN ""
    ELSE IF Len(texts) = 1 THEN texts[1]
    ELSE texts[1] \o sep \o Separated(Tail(texts), sep)

ListClause(keyword, texts) ==
    IF texts = <<>> THEN "" ELSE keyword \o Separated(texts, ", ")

JoinText(join) ==
    (IF join.join_type = "LeftJoin" THEN " LEFT JOIN " ELSE " INNER JOIN ")
    \o Text(write_table_ref(StringWriter, join.table).sql)
    \o " ON " \o Text(write_expr(StringWriter, join.on[1]).sql)

CountClause(keyword, n) == IF n = None THEN "" ELSE keyword \o ToString(n[1])

\* WITH, SELECT list, FROM, TABLESAMPLE, JOINs, WHERE, GROUP BY, HAVING,
\* ORDER BY, LIMIT, OFFSET, lock
ClausesInOrder(s) ==
    << IF s.with = None THEN ""
       ELSE Text(write_with(StringWriter, s.with[1]).sql) \o " ",
       "SELECT " \o Separated([i \in 1..Len(s.selects) |->
                    Text(write_select_expr(StringWriter, s.selects[i]).sql)], ", "),
       ListClause(" FROM ", [i \in 1..Len(s.from) |->
                    Text(write_table_ref(StringWriter, s.from[i]).sql)]),
       Text(write_table_sample(StringWriter, s.table_sample).sql),
       Separated([i \in 1..Len(s.joins) |-> JoinText(s.joins[i])], ""),
       Clause(" WHERE ", s.conditions),
       ListClause(" GROUP BY ", [i \in 1..Len(s.groups) |->
                    Text(write_expr(StringWriter, s.groups[i]).sql)]),
       Clause(" HAVING ", s.having),
       ListClause(" ORDER BY ", [i \in 1..Len(s.orders) |->
                    Text(write_order(StringWriter, s.orders[i]).sql)]),
       CountClause(" LIMIT ", s.limit),
       CountClause(" OFFSET ", s.offset),
       IF s.lock = None THEN ""
       ELSE Text(write_row_level_lock(StringWriter, s.lock[1]).sql) >>

\* C22: the text of a SELECT is the texts of its clauses in the order WITH,
\* SELECT list, FROM, TABLESAMPLE, JOINs, WHERE, GROUP BY, HAVING, ORDER BY,
\* LIMIT, OFFSET, row-level lock, whatever the order of the builder calls; a
\* list clause holds its items in call order (each call appends), a repeated
\* limit, offset or lock keeps the last value only, and a clause never set
\* adds no text (as in select_1 and select_14).
C22_ClauseOrder ==
    /\ [](/\ sql # None => Text(sql[1]) = Separated(ClausesInOrder(sel), "")
          /\ Text(Select_to_sql(Select1)) =
                "SELECT \"character\", \"size_w\", \"size_h\" FROM \"character\" LIMIT 10 OFFSET 100"
          /\ Text(Select_to_sql(Select14)) =
                "SELECT \"id\", \"aspect\", MAX(\"image\") FROM \"glyph\" GROUP BY \"glyph\".\"id\", \"glyph\".\"aspect\" HAVING \"aspect\" > 2")
    /\ [][ /\ \A name \in ClauseColumns :
                /\ SelectColumn(name) =>
                        /\ Len(sel'.selects) = Len(sel.selects) + 1
                        /\ SubSeq(sel'.selects, 1, Len(sel.selects)) = sel.selects
                /\ SelectGroupByColumns(name) =>
                        /\ Len(sel'.groups) = Len(sel.groups) + 1
                        /\ SubSeq(sel'.groups, 1, Len(sel.groups)) = sel.groups
           /\ \A order \in ClauseOrders :
                SelectOrderBy(order) =>
                    /\ sel'.orders[Len(sel'.orders)] = order
                    /\ SubSeq(sel'.orders, 1, Len(sel.orders)) = sel.orders
           /\ \A n \in Counts :
                /\ SelectLimit(n) => sel'.limit = Some(n)
                /\ SelectOffset(n) => sel'.offset = Some(n)
           /\ \A lock \in Locks : SelectLock(lock) => sel'.lock = Some(lock)
         ]_vars

\* a statement with a HAVING, a GROUP BY and a lock, in this order of calls
\* or another, has been rendered
C22_Witness ==
    /\ sql # None
    /\ Text(sql[1]) = "SELECT  GROUP BY \"a\" HAVING \"w\" = 3 FOR SHARE"

(***************************************************************************)
(* SpecExplain: an EXPLAIN statement built from Explain::new() by its      *)
(* option setters in any order, then rendered by to_sql.                   *)
(***************************************************************************)
MaxOptions == 3    \* options of one EXPLAIN that are set

BoolOptions ==
    {"verbose", "costs", "settings", "generic_plan", "buffers", "wal",
     "timing", "summary", "memory"}
AllOptions == BoolOptions \cup {"analyze", "format", "serialize"}
Formats == {"Text", "Xml", "Json", "Yaml"}
Serializes == {"None", "Text", "Binary"}

\* Explain::new(): Self::default()
Explain_new ==
    [statement |-> None, analyze |-> None, format |-> None, verbose |-> None,
     costs |-> None, settings |-> None, generic_plan |-> None, buffers |-> None,
     serialize |-> None, wal |-> None, timing |-> None, summary |-> None,
     memory |-> None]

ExplainableStatement_Select(s) == [statement |-> "Select", select |-> s]

Format_as_str(format) ==
    CASE format = "Text" -> "TEXT"
      [] format = "Xml" -> "XML"
      [] format = "Json" -> "JSON"
      [] format = "Yaml" -> "YAML"

Serialize_as_str(serialize) ==
    CASE serialize = "None" -> "NONE"
      [] serialize = "Text" -> "TEXT"
      [] serialize = "Binary" -> "BINARY"

\* write_false printing " 0" for true
write_false_inverted(w, value) == IF value THEN push_str(w, " 0") ELSE w

write_false(w, value) == IF ~value THEN push_str(w, " 0") ELSE w

\* write_comma_if_not_first!(): p is the writer with the flag is_first
write_comma_if_not_first(p) ==
    IF p.is_first THEN [p EXCEPT !.is_first = FALSE]
    ELSE [p EXCEPT !.w = push_str(@, ", ")]

\* if let Some(v) = option { comma; w.push_str(keyword); write_false(w, v) }
write_bool_option(p, option, keyword) ==
    IF option = None THEN p
    ELSE [write_comma_if_not_first(p) EXCEPT
            !.w = write_false(push_str(@, keyword), option[1])]

\* if let Some(serialize) = explain.serialize { comma; "SERIALIZE "; as_str }
write_serialize_option(p, option) ==
    IF option = None THEN p
    ELSE [write_comma_if_not_first(p) EXCEPT
            !.w = push_str(push_str(@, "SERIALIZE "), Serialize_as_str(option[1]))]

\* if let Some(format) = explain.format { comma; "FORMAT "; as_str }
write_format_option(p, option) ==
    IF option = None THEN p
    ELSE [write_comma_if_not_first(p) EXCEPT
            !.w = push_str(push_str(@, "FORMAT "), Format_as_str(option[1]))]

write_explain_options(w, explain) ==
    write_format_option(
     write_bool_option(
      write_bool_option(
       write_bool_option(
        write_bool_option(
         write_serialize_option(
          write_bool_option(
           write_bool_option(
            write_bool_option(
             write_bool_option(
              write_bool_option(
               write_bool_option([w |-> w, is_first |-> TRUE],
                                 explain.analyze, "ANALYZE"),
               explain.verbose, "VERBOSE"),
              explain.costs, "COSTS"),
             explain.settings, "SETTINGS"),
            explain.generic_plan, "GENERIC_PLAN"),
           explain.buffers, "BUFFERS"),
          explain.serialize),
         explain.wal, "WAL"),
        explain.timing, "TIMING"),
       explain.summary, "SUMMARY"),
      explain.memory, "MEMORY"),
     explain.format).w

has_options(explain) == \E o \in AllOptions : explain[o] # None

write_explain_statement(w, statement) ==
    IF statement = None THEN w
    ELSE write_select(push_str(w, " "), statement[1].select)

write_explain(w, explain) ==
    write_explain_statement(
        IF has_options(explain)
        THEN push_str(write_explain_options(push_str(push_str(w, "EXPLAIN"), " ("),
                                            explain), ")")
        ELSE push_str(w, "EXPLAIN"),
        explain.statement)

Explain_to_sql(explain) == write_explain(StringWriter, explain).sql

InitExplain ==
    /\ expr = Expr_Asterisk
    /\ sql = None
    /\ out = None
    /\ str = <<>>
    /\ lit = None
    /\ qname = <<>>
    /\ sel = None
    /\ ins = None
    /\ coldef = None
    /\ val = None
    /\ panic = None
    /\ expl = Some(Explain_new)
    /\ conf = None
    /\ upd = None
    /\ del = None

OptionsSet(explain) == Cardinality({o \in AllOptions : explain[o] # None})

\* a setter of Explain: one more option, or an option set again
SetOption(option, v) ==
    /\ sql = None
    /\ OptionsSet(expl[1]) < MaxOptions \/ expl[1][option] # None
    /\ expl' = Some([expl[1] EXCEPT ![option] = Some(v)])
    /\ UNCHANGED <<expr, sql, out, str, lit, qname, sel, ins, coldef, val, panic,
                   conf, upd, del>>

\* Explain::analyze
ExplainAnalyze == SetOption("analyze", TRUE)

\* Explain::verbose, costs, settings, generic_plan, buffers, wal, timing,
\* summary, memory
ExplainBool(option, v) == SetOption(option, v)

\* Explain::format_text, format_xml, format_json, format_yaml
ExplainFormat(format) == SetOption("format", format)

\* Explain::serialize_text, serialize_binary, serialize_none
ExplainSerialize(serialize) == SetOption("serialize", serialize)

\* Explain::statement
ExplainStatement(select) ==
    /\ sql = None
    /\ expl' = Some([expl[1] EXCEPT
                        !.statement = Some(ExplainableStatement_Select(select))])
    /\ UNCHANGED <<expr, sql, out, str, lit, qname, sel, ins, coldef, val, panic,
                   conf, upd, del>>

\* Explain::to_sql
ExplainToSql ==
    /\ sql = None
    /\ sql' = Some(Explain_to_sql(expl[1]))
    /\ UNCHANGED <<expr, out, str, lit, builders>>

NextExplain ==
    \/ ExplainAnalyze
    \/ \E option \in BoolOptions, v \in BOOLEAN : ExplainBool(option, v)
    \/ \E format \in Formats : ExplainFormat(format)
    \/ \E serialize \in Serializes : ExplainSerialize(serialize)
    \/ \E select \in {CharacterQuery} : ExplainStatement(select)
    \/ ExplainToSql

SpecExplain == InitExplain /\ [][NextExplain]_vars

\* the statement of the test explain_postgres_select_with_options
ExplainWithOptions ==
    [statement |-> Some(ExplainableStatement_Select(
                    [Select_new EXCEPT
                        !.selects = <<SelectExpr(Column(
                            <<"c", "h", "a", "r", "a", "c", "t", "e", "r">>), None)>>,
                        !.from = <<Table(
                            <<"c", "h", "a", "r", "a", "c", "t", "e", "r">>)>>])),
     analyze |-> Some(TRUE), format |-> Some("Json"), verbose |-> Some(FALSE),
     costs |-> Some(TRUE), settings |-> Some(FALSE), generic_plan |-> Some(TRUE),
     buffers |-> Some(TRUE), serialize |-> Some("Text"), wal |-> Some(TRUE),
     timing |-> Some(FALSE), summary |-> Some(TRUE), memory |-> Some(TRUE)]

\* the options in the order of the claim, each with its keyword
OptionOrder ==
    << <<"analyze", "ANALYZE">>, <<"verbose", "VERBOSE">>, <<"costs", "COSTS">>,
       <<"settings", "SETTINGS">>, <<"generic_plan", "GENERIC_PLAN">>,
       <<"buffers", "BUFFERS">>, <<"serialize", "SERIALIZE">>, <<"wal", "WAL">>,
       <<"timing", "TIMING">>, <<"summary", "SUMMARY">>, <<"memory", "MEMORY">>,
       <<"format", "FORMAT">> >>

\* the text of one set option
OptionText(explain, o) ==
    LET v == explain[o[1]][1]
    IN  IF o[1] = "serialize" THEN o[2] \o " " \o Serialize_as_str(v)
        ELSE IF o[1] = "format" THEN o[2] \o " " \o Format_as_str(v)
        ELSE IF v THEN o[2] ELSE o[2] \o " 0"

RECURSIVE OptionTexts(_, _)
OptionTexts(explain, i) ==
    IF i > Len(OptionOrder) THEN <<>>
    ELSE (IF explain[OptionOrder[i][1]] # None
          THEN <<OptionText(explain, OptionOrder[i])>> ELSE <<>>)
         \o OptionTexts(explain, i + 1)

OptionList(explain) ==
    IF OptionTexts(explain, 1) = <<>> THEN ""
    ELSE " (" \o Separated(OptionTexts(explain, 1), ", ") \o ")"

StatementText(statement) ==
    IF statement = None THEN ""
    ELSE " " \o Text(Select_to_sql(statement[1].select))

\* C23: the text of an EXPLAIN is a function of the final value of each
\* option (a setter stores its value in its own field and leaves the others):
\* the set options in the order ANALYZE, VERBOSE, COSTS, SETTINGS,
\* GENERIC_PLAN, BUFFERS, SERIALIZE, WAL, TIMING, SUMMARY, MEMORY, FORMAT,
\* separated by ", ", true as the bare keyword and false as the keyword and
\* " 0"; the parenthesized list is there exactly when an option is set.
C23_ExplainOptions ==
    /\ [](/\ (sql # None /\ expl # None) =>
                /\ Text(sql[1]) = "EXPLAIN" \o OptionList(expl[1])
                                    \o StatementText(expl[1].statement)
                /\ (Len(sql[1]) > 1 /\ sql[1][2] = " (")
                        <=> \E o \in AllOptions : expl[1][o] # None
          /\ Text(Explain_to_sql(ExplainWithOptions)) =
                "EXPLAIN (ANALYZE, VERBOSE 0, COSTS, SETTINGS 0, GENERIC_PLAN, BUFFERS, SERIALIZE TEXT, WAL, TIMING 0, SUMMARY, MEMORY, FORMAT JSON) SELECT \"character\" FROM \"character\"")
    /\ [][ \A option \in BoolOptions, v \in BOOLEAN :
                ExplainBool(option, v) =>
                    /\ expl'[1][option] = Some(v)
                    /\ \A o \in AllOptions \ {option} : expl'[1][o] = expl[1][o]
         ]_vars

\* options set out of the fixed order, one of them false, one set twice
C23_Witness ==
    /\ sql # None
    /\ expl # None
    /\ Text(sql[1]) = "EXPLAIN (VERBOSE 0, WAL, FORMAT YAML)"

(***************************************************************************)
(* SpecConflict: an ON CONFLICT clause built from OnConflict::columns by   *)
(* do_nothing, update_columns and values, then written.                    *)
(***************************************************************************)
MaxUpdates == 4    \* updates of one DO UPDATE SET list

OnConflictTarget_Exprs(exprs) == [target |-> "Exprs", exprs |-> exprs]
OnConflictTarget_Constraint(constraint) ==
    [target |-> "Constraint", constraint |-> constraint]
OnConflictAction_DoNothing == [action |-> "DoNothing"]
OnConflictAction_Update(updates) == [action |-> "Update", updates |-> updates]
OnConflictUpdate_Column(c) == [update |-> "Column", col |-> c]
OnConflictUpdate_Expr(c, e) == [update |-> "Expr", col |-> c, expr |-> e]

\* OnConflict::columns
OnConflict_columns(columns) ==
    [targets |-> OnConflictTarget_Exprs(
                    [i \in 1..Len(columns) |-> Column(columns[i])]),
     target_conditions |-> <<>>,
     action |-> None,
     action_conditions |-> <<>>]

\* OnConflict::updates always starting a fresh list
OnConflict_updates_fresh(self, updates) ==
    [self EXCEPT !.action = Some(OnConflictAction_Update(updates))]

\* OnConflict::updates
OnConflict_updates(self, updates) ==
    IF self.action # None /\ self.action[1].action = "Update"
    THEN [self EXCEPT
            !.action = Some(OnConflictAction_Update(@[1].updates \o updates))]
    ELSE [self EXCEPT !.action = Some(OnConflictAction_Update(updates))]

\* OnConflict::update_columns
OnConflict_update_columns(self, columns) ==
    OnConflict_updates(self,
        [i \in 1..Len(columns) |-> OnConflictUpdate_Column(Iden_new(columns[i]))])

\* OnConflict::values
OnConflict_values(self, values) ==
    OnConflict_updates(self,
        [i \in 1..Len(values) |->
            OnConflictUpdate_Expr(Iden_new(values[i][1]), values[i][2])])

RECURSIVE write_conflict_exprs(_, _, _)
write_conflict_exprs(w, exprs, i) ==
    IF ~IsWriter(w) THEN w ELSE
    IF i > Len(exprs) THEN w
    ELSE write_conflict_exprs(
            write_expr(IF i > 1 THEN push_str(w, ", ") ELSE w, exprs[i]),
            exprs, i + 1)

write_conflict_target(w, targets) ==
    IF targets.target = "Exprs"
    THEN push_str(write_conflict_exprs(push_str(w, "("), targets.exprs, 1), ")")
    ELSE push_char(push_str(push_char(push_str(w, "ON CONSTRAINT "), "\""),
                            targets.constraint), "\"")

write_conflict_update(w, update) ==
    IF update.update = "Column"
    THEN write_iden(push_str(write_iden(w, update.col), " = \"excluded\"."),
                    update.col)
    ELSE write_expr(push_str(write_iden(w, update.col), " = "), update.expr)

RECURSIVE write_conflict_updates(_, _, _)
write_conflict_updates(w, updates, i) ==
    IF ~IsWriter(w) THEN w ELSE
    IF i > Len(updates) THEN w
    ELSE write_conflict_updates(
            write_conflict_update(IF i > 1 THEN push_str(w, ", ") ELSE w,
                                  updates[i]),
            updates, i + 1)

write_conflict_action(w, action) ==
    IF action = None THEN w
    ELSE IF action[1].action = "DoNothing" THEN push_str(w, " DO NOTHING")
    ELSE write_conflict_updates(push_str(w, " DO UPDATE SET "),
                                action[1].updates, 1)

write_on_conflict(w, on_conflict) ==
    write_condition(
        write_conflict_action(
            write_condition(
                write_conflict_target(push_str(w, " ON CONFLICT "),
                                      on_conflict.targets),
                " WHERE ", from_conditions(on_conflict.target_conditions)),
            on_conflict.action),
        " WHERE ", from_conditions(on_conflict.action_conditions))

ConflictColumnLists == { <<<<"a">>>>, <<<<"b">>>>, <<<<"a">>, <<"b">>>> }
ConflictValueLists ==
    { << <<<<"c">>, binary(Expr_value(IntValue(1)), "Add", Expr_value(IntValue(2)))>> >> }

InitConflict ==
    /\ expr = Expr_Asterisk
    /\ sql = None
    /\ out = None
    /\ str = <<>>
    /\ lit = None
    /\ qname = <<>>
    /\ sel = None
    /\ ins = None
    /\ coldef = None
    /\ val = None
    /\ panic = None
    /\ expl = None
    /\ conf = Some(OnConflict_columns(<<<<"i", "d">>>>))
    /\ upd = None
    /\ del = None

UpdatesLen(self) ==
    IF self.action # None /\ self.action[1].action = "Update"
    THEN Len(self.action[1].updates) ELSE 0

\* a builder method of OnConflict
ConflictBuild(changed) ==
    /\ conf' = Some(changed)
    /\ sql' = None
    /\ UNCHANGED <<expr, out, str, lit, qname, sel, ins, coldef, val, panic,
                   expl, upd, del>>

\* OnConflict::do_nothing
ConflictDoNothing ==
    ConflictBuild([conf[1] EXCEPT !.action = Some(OnConflictAction_DoNothing)])

\* OnConflict::update_columns (update_column is update_columns([column]))
ConflictUpdateColumns(columns) ==
    /\ UpdatesLen(conf[1]) + Len(columns) <= MaxUpdates
    /\ ConflictBuild(OnConflict_update_columns(conf[1], columns))

\* OnConflict::values (value is values([(col, value)]))
ConflictValues(values) ==
    /\ UpdatesLen(conf[1]) + Len(values) <= MaxUpdates
    /\ ConflictBuild(OnConflict_values(conf[1], values))

\* write_on_conflict on the clause as it stands
WriteOnConflict ==
    /\ sql = None
    /\ sql' = Some(write_on_conflict(StringWriter, conf[1]).sql)
    /\ UNCHANGED <<expr, out, str, lit, builders>>

NextConflict ==
    \/ ConflictDoNothing
    \/ \E columns \in ConflictColumnLists : ConflictUpdateColumns(columns)
    \/ \E values \in ConflictValueLists : ConflictValues(values)
    \/ WriteOnConflict

SpecConflict == InitConflict /\ [][NextConflict]_vars

\* the updates of the clause, None when its action is not an update list
UpdatesOf(self) ==
    IF self.action # None /\ self.action[1].action = "Update"
    THEN Some(self.action[1].updates) ELSE None

ColumnUpdates(columns) ==
    [i \in 1..Len(columns) |-> OnConflictUpdate_Column(Iden_new(columns[i]))]
ExprUpdates(values) ==
    [i \in 1..Len(values) |->
        OnConflictUpdate_Expr(Iden_new(values[i][1]), values[i][2])]

\* "col" = "excluded"."col" for a column update, "col" = <expr> for a value
UpdateText(update) ==
    IF update.update = "Column"
    THEN Quoted(update.col.name) \o " = \"excluded\"." \o Quoted(update.col.name)
    ELSE Quoted(update.col.name) \o " = "
            \o Text(write_expr(StringWriter, update.expr).sql)

ActionText(self) ==
    IF self.action = None THEN ""
    ELSE IF self.action[1].action = "DoNothing" THEN " DO NOTHING"
    ELSE " DO UPDATE SET "
            \o Separated([i \in 1..Len(self.action[1].updates) |->
                            UpdateText(self.action[1].updates[i])], ", ")

\* what an update call leaves: the list so far followed by the new updates,
\* or the new updates alone after do_nothing() or on a clause with no action
Appended(new) ==
    conf'[1].action =
        Some(OnConflictAction_Update(
            IF UpdatesOf(conf[1]) # None THEN UpdatesOf(conf[1])[1] \o new
            ELSE new))

\* C24: update_column(s) and value(s) append to one DO UPDATE SET list in
\* call order, whichever of them made the list; do_nothing() replaces the
\* updates so far by DO NOTHING; an update call after do_nothing() starts a
\* fresh list with its own updates only; the clause is written as DO NOTHING
\* or as DO UPDATE SET and the updates in list order.
C24_ConflictUpdates ==
    /\ [](sql # None =>
            Text(sql[1]) = " ON CONFLICT (\"id\")" \o ActionText(conf[1]))
    /\ [][ /\ \A columns \in ConflictColumnLists :
                ConflictUpdateColumns(columns) => Appended(ColumnUpdates(columns))
           /\ \A values \in ConflictValueLists :
                ConflictValues(values) => Appended(ExprUpdates(values))
           /\ ConflictDoNothing =>
                /\ conf'[1].action = Some(OnConflictAction_DoNothing)
                /\ UpdatesOf(conf'[1]) = None
         ]_vars

\* a value update, then a column update, written (as in insert_on_conflict_5)
C24_Witness ==
    /\ sql # None
    /\ Text(sql[1]) =
        " ON CONFLICT (\"id\") DO UPDATE SET \"c\" = 1 + 2, \"a\" = \"excluded\".\"a\""

(***************************************************************************)
(* Rows and columns of an Insert (checked under SpecInsert).               *)
(***************************************************************************)
\* C25: in every Insert built by columns(), values() and select_from() calls
\* that did not panic, each stored VALUES row has exactly as many expressions
\* as the statement has declared columns.
C25_RowsMatchColumns ==
    (ins # None /\ IsValues(ins[1])) =>
        \A i \in 1..Len(ins[1].source[1].rows) :
            Len(ins[1].source[1].rows[i]) = Len(ins[1].columns)

(***************************************************************************)
(* SpecInsertSql, SpecUpdate, SpecDelete: Insert::new(), Update::new() and *)
(* Delete::new(), each built by its methods and rendered by to_sql.        *)
(***************************************************************************)
Returning_all == [returning |-> "All"]
Returning_exprs(exprs) == [returning |-> "Exprs", exprs |-> exprs]
\* Returning::columns
Returning_columns(cols) == Returning_exprs([i \in 1..Len(cols) |-> Column(cols[i])])

Update_new ==
    [table |-> None, values |-> <<>>, conditions |-> <<>>, returning |-> None]
Delete_new ==
    [table |-> None, conditions |-> <<>>, returning |-> None, with |-> None]

RECURSIVE write_exprs(_, _, _)
\* the loop over a list of expressions separated by ", "
write_exprs(w, exprs, i) ==
    IF ~IsWriter(w) THEN w ELSE
    IF i > Len(exprs) THEN w
    ELSE write_exprs(write_expr(IF i > 1 THEN push_str(w, ", ") ELSE w, exprs[i]),
                     exprs, i + 1)

write_returning(w, returning) ==
    IF returning.returning = "All"
    THEN push_char(push_str(w, " RETURNING "), "*")
    ELSE write_exprs(push_str(w, " RETURNING "), returning.exprs, 1)

\* if let Some(table) = &insert.table { w.push_str(keyword); write_table_ref }
write_statement_table(w, keyword, table) ==
    IF table # None THEN write_table_ref(push_str(w, keyword), table[1]) ELSE w

RECURSIVE write_default_rows(_, _, _)
\* for i in 0..num_rows { .. w.push_str("(DEFAULT)") }
write_default_rows(w, num_rows, i) ==
    IF ~IsWriter(w) THEN w ELSE
    IF i >= num_rows THEN w
    ELSE write_default_rows(
            push_str(IF i > 0 THEN push_str(w, ", ") ELSE w, "(DEFAULT)"),
            num_rows, i + 1)

RECURSIVE write_insert_rows(_, _, _)
write_insert_rows(w, rows, i) ==
    IF ~IsWriter(w) THEN w ELSE
    IF i > Len(rows) THEN w
    ELSE write_insert_rows(
            push_char(write_exprs(push_char(IF i > 1 THEN push_str(w, ", ") ELSE w,
                                            "("),
                                  rows[i], 1), ")"),
            rows, i + 1)

write_insert_source(w, source) ==
    IF source = None THEN w
    ELSE IF source[1].source = "Values"
    THEN write_insert_rows(push_str(push_char(w, " "), "VALUES "),
                           source[1].rows, 1)
    ELSE write_select(push_char(w, " "), source[1].query)

write_insert_returning(w, returning) ==
    IF returning # None THEN write_returning(w, returning[1]) ELSE w

\* insert.defaults.unwrap_or_default()
unwrap_or_default(defaults) == IF defaults = None THEN 0 ELSE defaults[1]

write_insert_rest(w, insert) ==
    IF ~IsWriter(w) THEN w ELSE
    IF /\ unwrap_or_default(insert.defaults) # 0
       /\ insert.columns = <<>>
       /\ insert.source = None
    THEN write_default_rows(push_str(w, " VALUES "),
                            unwrap_or_default(insert.defaults), 0)
    ELSE write_insert_returning(
            write_insert_source(
                push_str(write_idens(push_str(w, " ("), insert.columns, 1), ")"),
                insert.source),
            insert.returning)

write_insert(w, insert) ==
    write_insert_rest(
        write_statement_table(push_str(w, "INSERT "), "INTO ", insert.table),
        insert)

RECURSIVE write_update_values(_, _, _)
write_update_values(w, values, i) ==
    IF ~IsWriter(w) THEN w ELSE
    IF i > Len(values) THEN w
    ELSE write_update_values(
            write_expr(
                push_str(write_iden(IF i > 1 THEN push_str(w, ", ") ELSE w,
                                    values[i][1]), " = "),
                values[i][2]),
            values, i + 1)

write_update_set(w, values) ==
    IF values # <<>> THEN write_update_values(push_str(w, " SET "), values, 1)
    ELSE w

\* if let Some(returning) = &update.returning { w.push_str(" RETURNING "); .. }
write_update_returning(w, returning) ==
    IF returning # None
    THEN write_returning(push_str(w, " RETURNING "), returning[1])
    ELSE w

write_update(w, update) ==
    write_update_returning(
        write_condition(
            write_update_set(
                write_statement_table(push_str(w, "UPDATE "), "", update.table),
                update.values),
            " WHERE ", from_conditions(update.conditions)),
        update.returning)

write_delete(w, delete) ==
    write_insert_returning(
        write_condition(
            write_statement_table(
                push_str(write_with_clause(w, delete.with), "DELETE "),
                "FROM ", delete.table),
            " WHERE ", from_conditions(delete.conditions)),
        delete.returning)

Insert_to_sql(insert) == write_insert(StringWriter, insert).sql
Update_to_sql(update) == write_update(StringWriter, update).sql
Delete_to_sql(delete) == write_delete(StringWriter, delete).sql

Returnings ==
    { Returning_all, Returning_columns(<<<<"a">>>>),
      Returning_columns(<<<<"a">>, <<"b">>>>) }

\* nothing but the statement under build
NoOthers ==
    /\ expr = Expr_Asterisk
    /\ sql = None
    /\ out = None
    /\ str = <<>>
    /\ lit = None
    /\ qname = <<>>
    /\ sel = None
    /\ coldef = None
    /\ val = None
    /\ panic = None
    /\ expl = None
    /\ conf = None

InitInsertSql == NoOthers /\ ins = Some(Insert_new) /\ upd = None /\ del = None
InitUpdate == NoOthers /\ ins = None /\ upd = Some(Update_new) /\ del = None
InitDelete == NoOthers /\ ins = None /\ upd = None /\ del = Some(Delete_new)

\* a builder method of Insert
InsertBuild(changed) ==
    /\ ins # None
    /\ sql = None
    /\ ins' = Some(changed)
    /\ UNCHANGED <<expr, sql, out, str, lit, qname, sel, coldef, val, panic,
                   statements>>

\* Insert::into_table
InsertIntoTable(name) ==
    InsertBuild([ins[1] EXCEPT !.table = Some(Table(name))])

\* Insert::or_default_values
InsertOrDefaultValues(n) ==
    InsertBuild([ins[1] EXCEPT !.defaults = Some(n)])

\* Insert::returning
InsertReturning(returning) ==
    InsertBuild([ins[1] EXCEPT !.returning = Some(returning)])

\* Insert::to_sql
InsertToSql ==
    /\ ins # None
    /\ sql = None
    /\ sql' = Some(Insert_to_sql(ins[1]))
    /\ UNCHANGED <<expr, out, str, lit, builders>>

\* a builder method of Update
UpdateBuild(changed) ==
    /\ upd # None
    /\ sql = None
    /\ upd' = Some(changed)
    /\ UNCHANGED <<expr, sql, out, str, lit, qname, sel, ins, coldef, val, panic,
                   expl, conf, del>>

\* Update::table
UpdateTable(name) == UpdateBuild([upd[1] EXCEPT !.table = Some(Table(name))])

\* Update::values with one pair
UpdateValues(name, v) ==
    /\ upd # None
    /\ Len(upd[1].values) < MaxColumns
    /\ UpdateBuild([upd[1] EXCEPT !.values = Append(@, <<Iden_new(name), v>>)])

\* Update::and_where
UpdateAndWhere(e) ==
    /\ upd # None
    /\ Len(upd[1].conditions) < MaxColumns
    /\ UpdateBuild([upd[1] EXCEPT !.conditions = Append(@, e)])

\* Update::returning
UpdateReturning(returning) ==
    UpdateBuild([upd[1] EXCEPT !.returning = Some(returning)])

\* Update::to_sql
UpdateToSql ==
    /\ upd # None
    /\ sql = None
    /\ sql' = Some(Update_to_sql(upd[1]))
    /\ UNCHANGED <<expr, out, str, lit, builders>>

\* a builder method of Delete
DeleteBuild(changed) ==
    /\ del # None
    /\ sql = None
    /\ del' = Some(changed)
    /\ UNCHANGED <<expr, sql, out, str, lit, qname, sel, ins, coldef, val, panic,
                   expl, conf, upd>>

\* Delete::from_table
DeleteFromTable(name) == DeleteBuild([del[1] EXCEPT !.table = Some(Table(name))])

\* Delete::and_where
DeleteAndWhere(e) ==
    /\ del # None
    /\ Len(del[1].conditions) < MaxColumns
    /\ DeleteBuild([del[1] EXCEPT !.conditions = Append(@, e)])

\* Delete::returning
DeleteReturning(returning) ==
    DeleteBuild([del[1] EXCEPT !.returning = Some(returning)])

\* Delete::with
DeleteWith(with) == DeleteBuild([del[1] EXCEPT !.with = Some(with)])

\* Delete::to_sql
DeleteToSql ==
    /\ del # None
    /\ sql = None
    /\ sql' = Some(Delete_to_sql(del[1]))
    /\ UNCHANGED <<expr, out, str, lit, builders>>

NextInsertSql ==
    \/ \E name \in {<<"t">>} : InsertIntoTable(name)
    \/ \E name \in {<<"a">>, <<"b">>} : sql = None /\ InsertColumns(name)
    \/ \E values \in Rows : sql = None /\ InsertValues(values)
    \/ \E n \in {0, 2} : InsertOrDefaultValues(n)
    \/ \E returning \in Returnings : InsertReturning(returning)
    \/ InsertToSql

NextUpdate ==
    \/ \E name \in {<<"t">>} : UpdateTable(name)
    \/ \E name \in {<<"a">>} : UpdateValues(name, Expr_value(IntValue(1)))
    \/ \E e \in Conditions : UpdateAndWhere(e)
    \/ \E returning \in Returnings : UpdateReturning(returning)
    \/ UpdateToSql

NextDelete ==
    \/ \E name \in {<<"t">>} : DeleteFromTable(name)
    \/ \E e \in Conditions : DeleteAndWhere(e)
    \/ \E returning \in Returnings : DeleteReturning(returning)
    \/ \E with \in Withs : DeleteWith(with)
    \/ DeleteToSql

SpecInsertSql == InitInsertSql /\ [][NextInsertSql]_vars
SpecUpdate == InitUpdate /\ [][NextUpdate]_vars
SpecDelete == InitDelete /\ [][NextDelete]_vars

\* the statement under build and its RETURNING clause
Built == IF ins # None THEN ins[1] ELSE IF upd # None THEN upd[1] ELSE del[1]

\* how many times the renderer wrote the keyword
Keywords(fragments) ==
    Cardinality({i \in 1..Len(fragments) : fragments[i] = " RETURNING "})

\* "*" or the expressions separated by ", "
ReturningList(returning) ==
    IF returning.returning = "All" THEN "*"
    ELSE Separated([i \in 1..Len(returning.exprs) |->
                        Text(write_expr(StringWriter, returning.exprs[i]).sql)],
                   ", ")

\* the text ends with the keyword and the list
EndsWith(text, tail) ==
    /\ Len(text) >= Len(tail)
    /\ SubSeq(text, Len(text) - Len(tail) + 1, Len(text)) = tail

\* C26: for Insert, Update and Delete, a statement whose RETURNING clause was
\* set renders the keyword RETURNING exactly once, followed by "*" or the
\* expressions separated by ", "; a statement with no RETURNING clause
\* renders no such keyword.
C26_ReturningOnce ==
    (sql # None /\ (ins # None \/ upd # None \/ del # None)) =>
        IF Built.returning = None THEN Keywords(sql[1]) = 0
        ELSE /\ Keywords(sql[1]) = 1
             /\ EndsWith(Text(sql[1]),
                         " RETURNING " \o ReturningList(Built.returning[1]))

(***************************************************************************)
(* The left operand of an IN over the empty tuple (checked under Spec).    *)
(***************************************************************************)
\* e with the left operand of every IN / NOT IN over the empty tuple
\* replaced by l
RECURSIVE Replaced(_, _)
Replaced(e, l) ==
    CASE e.kind = "Tuple" ->
            Expr_Tuple([i \in 1..Len(e.exprs) |-> Replaced(e.exprs[i], l)])
      [] e.kind = "Unary" -> Expr_Unary(e.op, Replaced(e.expr, l))
      [] e.kind = "Binary" ->
            IF IsEmptyIn(e) THEN Expr_Binary(l, e.op, e.rhs)
            ELSE Expr_Binary(Replaced(e.lhs, l), e.op, Replaced(e.rhs, l))
      [] e.kind = "FunctionCall" ->
            Expr_FunctionCall(FunctionCall(e.call.func,
                [i \in 1..Len(e.call.args) |-> Replaced(e.call.args[i], l)]))
      [] OTHER -> e

HasEmptyIn(e) == \E n \in Written(e) : IsEmptyIn(n)

StatementOf(e) == [Select_new EXCEPT !.selects = <<SelectExpr(e, None)>>]

\* C27: the left operand of an IN or NOT IN over the empty tuple is not
\* rendered: with any other left operand in its place the statement renders
\* to the same text and, with placeholders, to the same text and the same
\* list of values.
C27_LeftOperandIgnored ==
    HasEmptyIn(expr) =>
        \A l \in Leaves :
            /\ sql # None => sql[1] = Select_to_sql(StatementOf(Replaced(expr, l)))
            /\ out # None => out[1] = Select_to_values(StatementOf(Replaced(expr, l)))

\* 'it''s' IN () rendered both ways: the string is not among the values
C27_Witness ==
    /\ sql # None
    /\ out # None
    /\ IsEmptyIn(expr)
    /\ expr.lhs.kind = "Value"
    /\ out[1].values = <<IntValue(1), IntValue(2)>>


(***************************************************************************)
(* Trees of columns, NOT and binary nodes: the text keeps the tree.        *)
(***************************************************************************)
MaxHeight == 2

\* one operator of each precedence class, two where associativity matters
TreeOps == {"And", "Or", "Equal", "Add", "Mul", "Between", "Is"}
TreeLeaves == {Column(<<"a">>)}

\* every tree of at most d levels of NOT and binary nodes over the leaves
RECURSIVE TreesUpTo(_)
TreesUpTo(d) ==
    IF d = 0 THEN TreeLeaves
    ELSE LET below == TreesUpTo(d - 1)
         IN  below
               \cup {not(t) : t \in below}
               \cup {binary(l, op, r) : l \in below, op \in TreeOps, r \in below}

\* plain nesting: the AND of a BETWEEN counts as a node of its own
RECURSIVE Height(_)
Height(e) ==
    CASE e.kind = "Binary" -> 1 + Max(Height(e.lhs), Height(e.rhs))
      [] e.kind = "Unary" -> 1 + Height(e.expr)
      [] OTHER -> 0

InitTree ==
    /\ expr \in TreeLeaves
    /\ sql = None
    /\ out = None
    /\ str = <<>>
    /\ lit = None
    /\ NoBuilders

\* self.binary(op, rhs) with an operand that is itself a tree
TreeBinary(op, rhs) ==
    /\ sql = None
    /\ Height(expr) < MaxHeight
    /\ expr' = binary(expr, op, rhs)
    /\ UNCHANGED <<sql, out, str, lit, builders>>

\* self.not()
TreeNot ==
    /\ sql = None
    /\ Height(expr) < MaxHeight
    /\ expr' = not(expr)
    /\ UNCHANGED <<sql, out, str, lit, builders>>

NextTree ==
    \/ \E op \in TreeOps, rhs \in TreesUpTo(MaxHeight - 1) : TreeBinary(op, rhs)
    \/ TreeNot
    \/ ToSql

SpecTree == InitTree /\ [][NextTree]_vars

\* C28: the rendered text of a tree of columns, NOT and binary nodes is the
\* text of no other such tree, and every such tree is one the builder makes.
C28_TreesDistinct ==
    /\ expr \in TreesUpTo(MaxHeight)
    /\ sql # None =>
          \A t \in TreesUpTo(MaxHeight) :
              t # expr => Text(Select_to_sql(StatementOf(t))) # Text(sql[1])

\* a BETWEEN b AND c, written bare although its right operand is an AND
C28_Witness ==
    /\ sql # None
    /\ expr = binary(Column(<<"a">>), "Between",
                     binary(Column(<<"a">>), "And", Column(<<"a">>)))
    /\ Text(sql[1]) = "SELECT \"a\" BETWEEN \"a\" AND \"a\""


(***************************************************************************)
(* The parentheses the renderer writes.                                    *)
(***************************************************************************)
\* the fragments the writers push that open or close a parenthesis
OpenFragments == {"(", " (", " REPEATABLE ("}
CloseFragments == {")", ") "}

RECURSIVE HasCustom(_)
RECURSIVE HasCustomIn(_)
HasCustomIn(es) == \E i \in 1..Len(es) : HasCustom(es[i])
HasCustom(e) ==
    CASE e.kind = "Custom" -> TRUE
      [] e.kind = "Binary" -> HasCustom(e.lhs) \/ HasCustom(e.rhs)
      [] e.kind = "Unary" -> HasCustom(e.expr)
      [] e.kind = "Tuple" -> HasCustomIn(e.exprs)
      [] e.kind = "FunctionCall" -> HasCustomIn(e.call.args)
      [] e.kind = "SubQuery" ->
            \/ \E i \in 1..Len(e.query.selects) : HasCustom(e.query.selects[i].expr)
            \/ HasCustomIn(e.query.conditions)
      [] OTHER -> FALSE

\* one pass over the fragments from the i-th on, open parentheses so far
\* being open: never more closed than opened, and none left open at the end
RECURSIVE Balanced(_, _, _)
Balanced(fragments, i, open) ==
    IF open < 0 THEN FALSE
    ELSE IF i > Len(fragments) THEN open = 0
    ELSE Balanced(fragments, i + 1,
            open + (IF fragments[i] \in OpenFragments THEN 1 ELSE 0)
                 - (IF fragments[i] \in CloseFragments THEN 1 ELSE 0))

RECURSIVE Opened(_)
Opened(fragments) ==
    IF fragments = <<>> THEN 0
    ELSE (IF Head(fragments) \in OpenFragments THEN 1 ELSE 0) + Opened(Tail(fragments))

\* C29: for an expression without Custom nodes the parentheses written by
\* the renderer are balanced in both modes: no prefix of the output closes
\* more than it opens, and the whole output closes all it opens.
C29_ParenthesesBalanced ==
    ~HasCustom(expr) =>
        /\ sql # None => Balanced(sql[1], 1, 0)
        /\ out # None => Balanced(out[1].sql, 1, 0)

\* a tuple that holds a wrapped operand next to a subquery
C29_Witness ==
    /\ ~HasCustom(expr)
    /\ sql # None
    /\ out # None
    /\ expr.kind = "Tuple"
    /\ Opened(sql[1]) >= 3
    /\ Opened(out[1].sql) >= 3


(***************************************************************************)
(* The sizes of a stored column type.                                      *)
(***************************************************************************)
\* what char, varchar and numeric let through, down the element types
RECURSIVE Sized(_)
Sized(ty) ==
    CASE ty.ty \in {"Char", "Varchar"} -> ty.size >= 1
      [] ty.ty = "Numeric" ->
            ty.ps # None => ty.ps[1][2] <= ty.ps[1][1] /\ ty.ps[1][1] <= 1000
      [] ty.ty = "Array" -> Sized(ty.elem)
      [] OTHER -> TRUE

\* C30: the column type stored in a definition made by the builder, and the
\* element type of an array column, has a Char or Varchar size of at least 1
\* and a Numeric scale <= precision <= 1000.
C30_StoredTypesSized ==
    (coldef # None /\ coldef[1].ty # None) => Sized(coldef[1].ty[1])

====
